---- MODULE Spec2Model ----
(***************************************************************************)
(* A model of FluxForge: the dependency sorter, the replication pipeline,  *)
(* the verifier, the value equality, the schema differ and insert_chunk of *)
(* both drivers, the row decoders, the command orchestrator and single     *)
(* functions of the drivers (DDL rendering, index and column introspection).*)
(* Each subsystem has its own specification (SpecSort, SpecRepl, ...); the *)
(* variables of the subsystems a specification does not exercise are held  *)
(* at their idle value.                                                    *)
(***************************************************************************)
EXTENDS Integers, Sequences, FiniteSets, TLC

VARIABLES
    \* --- dependency sorter and the Migrate command around it
    schema_in,        \* the schema as resolved (file or introspection), never changed
    schema_tables,    \* the caller's schema.tables
    cmd_pc,           \* position of handle_command (Migrate)
    sort_result,      \* what sort_tables_by_dependencies returned
    diff_called,      \* diff of the target has been requested (DDL generated/applied)
    \* --- replication pipeline (ops.rs replicate_data)
    r_dry_run,        \* argument dry_run
    r_verify,         \* argument verify_after_write
    r_pc,             \* position in replicate_data
    r_ti,             \* index into schema.tables of the table of the current iteration
    r_total,          \* per table: rows the source stream has yielded (total_rows)
    r_chunk,          \* the buffer
    r_calls,          \* the insert_chunk calls made so far, in call order
    r_log,            \* stream opens, insert calls/returns, verifications, in order
    \* --- value equality (ops.rs values_equal)
    v_left,           \* argument left
    v_right,          \* argument right
    v_pc,             \* "call" before the function ran, "done" after
    v_result,         \* the returned bool
    \* --- verifier (ops.rs verify_table_data)
    vf_source,        \* what the ordered source stream yields: rows and errors
    vf_target,        \* what the ordered target stream yields
    vf_si,            \* items pulled from the source stream
    vf_ti,            \* items pulled from the target stream
    vf_source_next,   \* source_next of the current iteration
    vf_target_next,   \* target_next of the current iteration
    vf_pc,            \* position in verify_table_data
    vf_result,        \* the returned Result
    \* --- schema differ (drivers: diff_and_apply_schema)
    d_driver,         \* "mysql" or "postgres": the driver of the target
    d_desired,        \* argument source_schema.tables (the desired state)
    d_dry_run,        \* argument dry_run
    d_destructive,    \* argument destructive
    d_catalog,        \* the live target database: its tables, columns, indices
    d_target,         \* target_schema.tables as fetch_schema returned it in this call
    d_stmts,          \* all_statements of this call
    d_next,           \* index of the next statement to execute
    d_pc,             \* position in diff_and_apply_schema
    d_returned,       \* the results of the calls made so far, in call order
    \* --- insert_chunk of both drivers
    ic_driver,        \* "mysql" or "postgres": the driver of the target
    ic_zero_date,     \* MySqlDriver.zero_date_on_write
    ic_dry_run,       \* argument dry_run
    ic_halt,          \* argument halt_on_error
    ic_chunk,         \* argument chunk
    ic_fault,         \* the batch statement fails for a reason no single row has
    ic_table0,        \* the rows of the target table when insert_chunk is called
    ic_table,         \* the rows of the target table
    ic_landed,        \* indices of the chunk rows inserted, in insertion order
    ic_log,           \* the lines of migration_errors.log
    ic_pc,            \* position in insert_chunk
    ic_i,             \* index of the row the retry loop is at
    ic_err,           \* the error of the batch statement
    ic_execs,         \* INSERT statements sent to the target
    ic_result,        \* the returned Result
    \* --- command orchestrator (business.rs handle_command)
    c_in,             \* the command and its URLs
    c_dry_run,        \* --dry-run
    c_destructive,    \* --allow-destructive
    c_cycle,          \* the schema's foreign keys form a cycle
    c_source_db,      \* the source database
    c_target0,        \* the target database when the command starts
    c_target_db,      \* the target database
    c_schema,         \* the tables of the schema the command resolved
    c_io,             \* what the command did to the databases, in order
    c_pc,             \* position in handle_command
    c_result,         \* the returned Result
    \* --- row decoding on the way from a stream to insert_chunk
    rw_driver,        \* "mysql" or "postgres": the driver of the source
    rw_stream,        \* the result rows of SELECT * as the server sends them
    rw_i,             \* rows the stream has taken from the server
    rw_item,          \* the item the stream yielded last
    rw_chunk,         \* the buffer of replicate_data
    rw_inserted,      \* the rows passed to insert_chunk
    rw_pc,            \* position in the loop of replicate_data
    rw_result,        \* what replicate_data returned
    \* --- alter_table_migration_sql of both drivers
    al_driver,        \* "mysql" or "postgres": the driver of the target
    al_destructive,   \* argument destructive
    al_source,        \* argument source_table (the desired table)
    al_target,        \* argument target_table (the table as fetched from the target)
    al_stmts,         \* the returned statements
    al_pc,            \* "call" before the function ran, "done" after
    \* --- single functions of the drivers
    dv_call,          \* the function called, the driver and the arguments
    dv_i,             \* fetch_indices: rows of SHOW INDEX folded in so far
    dv_map,           \* fetch_indices: indices_map, as the indices in insertion order
    dv_result,        \* the returned value
    dv_pc             \* "call" before the function ran, "done" after

sortVars == <<schema_in, schema_tables, cmd_pc, sort_result, diff_called>>
replVars == <<r_dry_run, r_verify, r_pc, r_ti, r_total, r_chunk, r_calls, r_log>>

valVars == <<v_left, v_right, v_pc, v_result>>
verVars == <<vf_source, vf_target, vf_si, vf_ti, vf_source_next, vf_target_next,
             vf_pc, vf_result>>

diffVars == <<d_driver, d_desired, d_dry_run, d_destructive, d_catalog, d_target,
              d_stmts, d_next, d_pc, d_returned>>

insVars == <<ic_driver, ic_zero_date, ic_dry_run, ic_halt, ic_chunk, ic_fault,
             ic_table0, ic_table, ic_landed, ic_log, ic_pc, ic_i, ic_err,
             ic_execs, ic_result>>

\* the subsystems added to the first five
cmdVars == <<c_in, c_dry_run, c_destructive, c_cycle, c_source_db, c_target0,
             c_target_db, c_schema, c_io, c_pc, c_result>>

rowVars == <<rw_driver, rw_stream, rw_i, rw_item, rw_chunk, rw_inserted, rw_pc,
             rw_result>>

altVars == <<al_driver, al_destructive, al_source, al_target, al_stmts, al_pc>>

drvVars == <<dv_call, dv_i, dv_map, dv_result, dv_pc>>

extVars == <<insVars, cmdVars, rowVars, altVars, drvVars>>

vars == <<sortVars, replVars, valVars, verVars, diffVars, extVars>>

\* what an action of one subsystem leaves alone
notSort == <<replVars, valVars, verVars, diffVars, extVars>>
notRepl == <<sortVars, valVars, verVars, diffVars, extVars>>
notVal == <<sortVars, replVars, verVars, diffVars, extVars>>
notVer == <<sortVars, replVars, valVars, diffVars, extVars>>
notDiff == <<sortVars, replVars, valVars, verVars, extVars>>
firstVars == <<sortVars, replVars, valVars, verVars, diffVars>>
notIns == <<firstVars, cmdVars, rowVars, altVars, drvVars>>
notCmd == <<firstVars, insVars, rowVars, altVars, drvVars>>
notRow == <<firstVars, insVars, cmdVars, altVars, drvVars>>
notAlt == <<firstVars, insVars, cmdVars, rowVars, drvVars>>
notDrv == <<firstVars, insVars, cmdVars, rowVars, altVars>>

----------------------------------------------------------------------------
(* Generic helpers *)

Range(s) == {s[i] : i \in DOMAIN s}

\* all orderings (sequences without repetition) of a finite set
Perms(S) ==
    {p \in [1..Cardinality(S) -> S] : \A i, j \in DOMAIN p : i # j => p[i] # p[j]}

None == [some |-> FALSE]
Some(v) == [some |-> TRUE, v |-> v]

----------------------------------------------------------------------------
(* Dependency sorter: ops.rs sort_tables_by_dependencies *)

MaxTables == 3
MaxFks == 3

\* a foreign key to this name references a table that is not in the schema
AbsentTable == 0

\* ForgeTable reduced to what the sorter reads: name and the ref_table of
\* every foreign key (the order of a table's foreign keys is not observable
\* by the sorter: each one contributes one edge)
Table(name, refs) == [name |-> name, foreign_keys |-> refs]

\* schemas: tables named 1..n in list order, at most MaxFks foreign keys in all
SchemaOf(n, fks) == [i \in 1..n |-> Table(i, {e[2] : e \in {f \in fks : f[1] = i}})]

SortSchemas ==
    UNION {{SchemaOf(n, fks) :
               fks \in {F \in SUBSET ((1..n) \X (0..n)) : Cardinality(F) <= MaxFks}} :
           n \in 0..MaxTables}

\* nodes: HashMap name -> node index, one node per table in list order; a
\* later table of the same name overwrites the entry (ops.rs:290-293)
SortNodes(tables) ==
    [nm \in {tables[i].name : i \in DOMAIN tables} |->
        CHOOSE i \in DOMAIN tables :
            /\ tables[i].name = nm
            /\ \A j \in DOMAIN tables : tables[j].name = nm => j <= i]

\* the edge drawn from the referencing table to the referenced one
SortEdgesReversed(tables) ==
    LET nodes == SortNodes(tables)
    IN  UNION {{<<nodes[tables[i].name], nodes[r]>> :
                   r \in tables[i].foreign_keys \cap DOMAIN nodes} :
               i \in DOMAIN tables}

\* edges: for each foreign key whose ref_table is a node, an edge from the
\* referenced table's node to the referencing table's node (ops.rs:296-307)
SortEdges(tables) ==
    LET nodes == SortNodes(tables)
    IN  UNION {{<<nodes[r], nodes[tables[i].name]>> :
                   r \in tables[i].foreign_keys \cap DOMAIN nodes} :
               i \in DOMAIN tables}

\* petgraph::algo::toposort, by its contract: Ok with some ordering of all
\* nodes in which every edge points forward, Err(Cycle) when there is none
\* (a self-loop included). Which of the orderings is returned is the
\* library's choice; the model allows each.
Toposort(n, edges) ==
    {p \in Perms(1..n) :
        \A e \in edges : \E i, j \in 1..n : i < j /\ p[i] = e[1] /\ p[j] = e[2]}

\* table_map: name -> table, the last table of a name wins (ops.rs:313-314)
SortTableMap(tables) ==
    [nm \in {tables[i].name : i \in DOMAIN tables} |-> tables[SortNodes(tables)[nm]]]

\* the Ok arm: the tables of the sorted node indices, cloned (ops.rs:311-323)
SortedTables(tables, sorted_indices) ==
    [k \in DOMAIN sorted_indices |->
        SortTableMap(tables)[tables[sorted_indices[k]].name]]

CircularDependency == "Circular dependency detected!"

\* every value sort_tables_by_dependencies may return for the schema
SortResults(tables) ==
    LET orders == Toposort(Len(tables), SortEdges(tables))
    IN  IF orders = {}
        THEN {[ok |-> FALSE, err |-> CircularDependency]}
        ELSE {[ok |-> TRUE, tables |-> SortedTables(tables, p)] : p \in orders}

NoResult == [ok |-> FALSE, err |-> "not called"]

\* the sorter's error swallowed: the command goes on with the tables as they are
MigrateAfterSortIgnoringError(res, tables) ==
    IF res.ok THEN [pc |-> "diff", tables |-> res.tables]
    ELSE [pc |-> "diff", tables |-> tables]

\* handle_command, Migrate arm (business.rs:93-96): on Ok the caller's
\* tables are replaced by the sorted list, on Err the command returns
MigrateAfterSort(res, tables) ==
    IF res.ok THEN [pc |-> "diff", tables |-> res.tables]
    ELSE [pc |-> "failed", tables |-> tables]

SortInit ==
    /\ schema_in \in SortSchemas
    /\ schema_tables = schema_in
    /\ cmd_pc = "sort"
    /\ sort_result = NoResult
    /\ diff_called = FALSE

SortIdle ==
    /\ schema_in = <<>>
    /\ schema_tables = <<>>
    /\ cmd_pc = "idle"
    /\ sort_result = NoResult
    /\ diff_called = FALSE

\* sort_tables_by_dependencies(&schema) is evaluated
SortCall ==
    /\ cmd_pc = "sort"
    /\ sort_result' \in SortResults(schema_tables)
    /\ cmd_pc' = "sorted"
    /\ UNCHANGED <<schema_in, schema_tables, diff_called, notSort>>

\* .map(|sorted| schema.tables = sorted).map_err(..)?
SortReturn ==
    /\ cmd_pc = "sorted"
    /\ cmd_pc' = MigrateAfterSort(sort_result, schema_tables).pc
    /\ schema_tables' = MigrateAfterSort(sort_result, schema_tables).tables
    /\ UNCHANGED <<schema_in, sort_result, diff_called, notSort>>

\* create_driver(&target) and the diff of the target (business.rs:99-103)
MigrateDiff ==
    /\ cmd_pc = "diff"
    /\ diff_called' = TRUE
    /\ cmd_pc' = "done"
    /\ UNCHANGED <<schema_in, schema_tables, sort_result, notSort>>

SortNext == SortCall \/ SortReturn \/ MigrateDiff

----------------------------------------------------------------------------
(* Replication pipeline: ops.rs replicate_data *)

\* chunk.len() >= 1000 (ops.rs:228)
CHUNK == 1000

\* the source stream of a table may end after k full chunks, one row
\* before or one row after, for k up to MaxChunks
MaxChunks == 1

EndPoints == {n \in 0..(MaxChunks * CHUNK + 1) :
                 \E k \in 0..MaxChunks : n \in {k * CHUNK - 1, k * CHUNK, k * CHUNK + 1}}

MaxRows == MaxChunks * CHUNK + 1

\* schema.tables, in the sorter's order
ReplTables == <<"customers", "orders">>

\* the i-th row the source stream of a table yields
Row(table, i) == <<table, i>>

ZeroTotals == [t \in Range(ReplTables) |-> 0]

\* the buffer is flushed one row late
ChunkIsFullOffByOne(chunk) == Len(chunk) > CHUNK

\* if chunk.len() >= 1000 (ops.rs:228)
ChunkIsFull(chunk) == Len(chunk) >= CHUNK

\* the rows handed to insert_chunk stay in the buffer
ChunkAfterInsertKept(chunk) == chunk

\* chunk = Vec::with_capacity(1000): the buffer was moved into the call and
\* is replaced by a fresh one (ops.rs:230-232, 240)
ChunkAfterInsert(chunk) == <<>>

\* verification switched off
ShouldVerifyNever(verify_after_write, dry_run) == FALSE

\* if verify_after_write && !dry_run (ops.rs:248)
ShouldVerify(verify_after_write, dry_run) == verify_after_write /\ ~dry_run

CurrentTable == ReplTables[r_ti]

ReplInit ==
    /\ r_dry_run \in BOOLEAN
    /\ r_verify \in BOOLEAN
    /\ r_pc = "table"
    /\ r_ti = 1
    /\ r_total = ZeroTotals
    /\ r_chunk = <<>>
    /\ r_calls = <<>>
    /\ r_log = <<>>

ReplIdle ==
    /\ r_dry_run = FALSE
    /\ r_verify = FALSE
    /\ r_pc = "idle"
    /\ r_ti = 0
    /\ r_total = <<>>
    /\ r_chunk = <<>>
    /\ r_calls = <<>>
    /\ r_log = <<>>

\* for table in &schema.tables: stream_table_data(..).await? succeeds and
\* the buffer and the row counter are set up (ops.rs:213-221)
ReplOpenStream ==
    /\ r_pc = "table"
    /\ r_ti <= Len(ReplTables)
    /\ r_pc' = "pull"
    /\ r_chunk' = <<>>
    /\ r_log' = Append(r_log, <<"open", CurrentTable>>)
    /\ UNCHANGED <<r_dry_run, r_verify, r_ti, r_total, r_calls, notRepl>>

\* stream_table_data(..).await? fails: the run ends with the error
ReplOpenStreamErr ==
    /\ r_pc = "table"
    /\ r_ti <= Len(ReplTables)
    /\ r_pc' = "failed"
    /\ UNCHANGED <<r_dry_run, r_verify, r_ti, r_total, r_chunk, r_calls, r_log, notRepl>>

\* the loop over the tables is over: Ok(())
ReplFinish ==
    /\ r_pc = "table"
    /\ r_ti > Len(ReplTables)
    /\ r_pc' = "done"
    /\ UNCHANGED <<r_dry_run, r_verify, r_ti, r_total, r_chunk, r_calls, r_log, notRepl>>

\* data_stream.next() yields Some(Ok(row)): push, count, and when the
\* buffer is full call insert_chunk with it (ops.rs:223-231)
ReplPullRow ==
    /\ r_pc = "pull"
    /\ r_total[CurrentTable] < MaxRows
    /\ LET row == Row(CurrentTable, r_total[CurrentTable] + 1)
           chunk == Append(r_chunk, row)
       IN  /\ r_total' = [r_total EXCEPT ![CurrentTable] = @ + 1]
           /\ IF ChunkIsFull(chunk)
              THEN /\ r_calls' = Append(r_calls, [table |-> CurrentTable, rows |-> chunk])
                   /\ r_log' = Append(r_log, <<"insert", CurrentTable>>)
                   /\ r_chunk' = ChunkAfterInsert(chunk)
                   /\ r_pc' = "insert_full"
              ELSE /\ r_chunk' = chunk
                   /\ r_pc' = "pull"
                   /\ UNCHANGED <<r_calls, r_log>>
    /\ UNCHANGED <<r_dry_run, r_verify, r_ti, notRepl>>

\* a plausible slip: the buffered rows are handed to insert_chunk before the
\* error is returned
AfterStreamErrorFlushing(table, chunk, calls) ==
    [pc |-> "failed",
     calls |-> IF chunk = <<>> THEN calls
               ELSE Append(calls, [table |-> table, rows |-> chunk])]

\* `let row = row_result?;`: the error leaves replicate_data at once, the
\* buffer is dropped with the frame (ops.rs:224)
AfterStreamError(table, chunk, calls) == [pc |-> "failed", calls |-> calls]

\* data_stream.next() yields Some(Err(e)): row_result? ends the run (ops.rs:224)
ReplPullErr ==
    /\ r_pc = "pull"
    /\ r_total[CurrentTable] \in EndPoints
    /\ LET after == AfterStreamError(CurrentTable, r_chunk, r_calls)
       IN  /\ r_pc' = after.pc
           /\ r_calls' = after.calls
    /\ UNCHANGED <<r_dry_run, r_verify, r_ti, r_total, r_chunk, r_log, notRepl>>

\* insert_chunk of a full buffer returns Ok: next row (ops.rs:229-233)
ReplInsertFullOk ==
    /\ r_pc = "insert_full"
    /\ r_pc' = "pull"
    /\ r_log' = Append(r_log, <<"inserted", CurrentTable>>)
    /\ UNCHANGED <<r_dry_run, r_verify, r_ti, r_total, r_chunk, r_calls, notRepl>>

\* insert_chunk returns Err: .await? ends the run (ops.rs:231, 241)
ReplInsertErr ==
    /\ r_pc \in {"insert_full", "insert_last"}
    /\ r_pc' = "failed"
    /\ UNCHANGED <<r_dry_run, r_verify, r_ti, r_total, r_chunk, r_calls, r_log, notRepl>>

\* data_stream.next() yields None: the remaining rows, if any, are passed
\* to insert_chunk (ops.rs:237-243)
ReplStreamEnd ==
    /\ r_pc = "pull"
    /\ r_total[CurrentTable] \in EndPoints
    /\ IF r_chunk # <<>>
       THEN /\ r_calls' = Append(r_calls, [table |-> CurrentTable, rows |-> r_chunk])
            /\ r_log' = Append(r_log, <<"insert", CurrentTable>>)
            /\ r_chunk' = ChunkAfterInsert(r_chunk)
            /\ r_pc' = "insert_last"
       ELSE /\ r_pc' = "flushed"
            /\ UNCHANGED <<r_calls, r_log, r_chunk>>
    /\ UNCHANGED <<r_dry_run, r_verify, r_ti, r_total, notRepl>>

\* insert_chunk of the last chunk returns Ok
ReplInsertLastOk ==
    /\ r_pc = "insert_last"
    /\ r_pc' = "flushed"
    /\ r_log' = Append(r_log, <<"inserted", CurrentTable>>)
    /\ UNCHANGED <<r_dry_run, r_verify, r_ti, r_total, r_chunk, r_calls, notRepl>>

\* the table is written: verify it, or go on to the next table (ops.rs:245-251)
ReplAfterTable ==
    /\ r_pc = "flushed"
    /\ IF ShouldVerify(r_verify, r_dry_run)
       THEN /\ r_pc' = "verify"
            /\ r_log' = Append(r_log, <<"verify", CurrentTable>>)
            /\ UNCHANGED r_ti
       ELSE /\ r_pc' = "table"
            /\ r_ti' = r_ti + 1
            /\ UNCHANGED r_log
    /\ UNCHANGED <<r_dry_run, r_verify, r_total, r_chunk, r_calls, notRepl>>

\* verify_table_data(..).await? returns Ok: next table
ReplVerifyOk ==
    /\ r_pc = "verify"
    /\ r_pc' = "table"
    /\ r_ti' = r_ti + 1
    /\ r_log' = Append(r_log, <<"verified", CurrentTable>>)
    /\ UNCHANGED <<r_dry_run, r_verify, r_total, r_chunk, r_calls, notRepl>>

\* verify_table_data(..).await? returns Err: the run ends
ReplVerifyErr ==
    /\ r_pc = "verify"
    /\ r_pc' = "failed"
    /\ r_log' = Append(r_log, <<"verify_failed", CurrentTable>>)
    /\ UNCHANGED <<r_dry_run, r_verify, r_ti, r_total, r_chunk, r_calls, notRepl>>

ReplNext ==
    \/ ReplOpenStream \/ ReplOpenStreamErr \/ ReplFinish
    \/ ReplPullRow \/ ReplPullErr \/ ReplStreamEnd
    \/ ReplInsertFullOk \/ ReplInsertLastOk \/ ReplInsertErr
    \/ ReplAfterTable \/ ReplVerifyOk \/ ReplVerifyErr

----------------------------------------------------------------------------
(* Value equality: ops.rs values_equal *)

\* i64 and u64 are modelled IntBits wide, Year's i32 one bit narrower
IntBits == 3

I64Min == -(2 ^ (IntBits - 1))
I64Max == 2 ^ (IntBits - 1) - 1
U64Max == 2 ^ IntBits - 1
I32Min == -(2 ^ (IntBits - 2))
I32Max == 2 ^ (IntBits - 2) - 1

\* f64 payloads: a NaN, both zeros and an ordinary number
NaN == "NaN"
FloatPool == {NaN, "-0.0", "0.0", "1.5"}

\* ForgeUniversalValue (core.rs): a variant tag and its payload. Integer
\* payloads are in field v, all other payloads in field p; the two
\* sentinels carry none
Value(tag, v) == [tag |-> tag, v |-> v]
Opaque(tag, p) == [tag |-> tag, p |-> p]
Null == [tag |-> "Null"]
ZeroDateTime == [tag |-> "ZeroDateTime"]

IntTags == {"Integer", "UnsignedInteger", "Year"}

\* the variants whose payload is compared with the payload type's ==
\* and that take part in no cross-variant rule
PlainTags == {"Text", "Binary", "Boolean", "Time", "Date", "DateTime", "Decimal",
              "Json", "Uuid", "Inet"}

Values ==
    {Null, ZeroDateTime}
    \cup {Value("Integer", i) : i \in I64Min..I64Max}
    \cup {Value("UnsignedInteger", u) : u \in 0..U64Max}
    \cup {Value("Year", y) : y \in I32Min..I32Max}
    \cup {Opaque("Float", f) : f \in FloatPool}
    \cup {Opaque(t, p) : t \in PlainTags, p \in {"a", "b"}}

Payload(x) == IF x.tag \in IntTags THEN x.v ELSE x.p

\* `a as u64` for a: i64 (two's complement reinterpretation)
AsU64(a) == a % (2 ^ IntBits)

\* i64::from(a) for a: i32
I64FromI32(a) == a

\* f64's PartialEq: IEEE 754 comparison
F64Eq(a, b) ==
    /\ a # NaN
    /\ b # NaN
    /\ (a = b \/ {a, b} = {"-0.0", "0.0"})

\* values_equal without the sign checks of the mixed integer arms
ValuesEqualUnchecked(left, right) ==
    LET a == Payload(left)
        b == Payload(right)
        L == left.tag
        R == right.tag
    IN  CASE L \in {"Null", "ZeroDateTime"} /\ R \in {"Null", "ZeroDateTime"} -> TRUE
          [] L = "Integer" /\ R = "Integer" -> a = b
          [] L = "UnsignedInteger" /\ R = "UnsignedInteger" -> a = b
          [] L = "Integer" /\ R = "UnsignedInteger" -> AsU64(a) = b
          [] L = "UnsignedInteger" /\ R = "Integer" -> a = AsU64(b)
          [] L = "Float" /\ R = "Float" -> F64Eq(a, b)
          [] L = "Year" /\ R = "Year" -> a = b
          [] L = "Year" /\ R = "Integer" -> I64FromI32(a) = b
          [] L = "Integer" /\ R = "Year" -> a = I64FromI32(b)
          [] L \in PlainTags /\ R = L -> a = b
          [] OTHER -> FALSE

\* fn values_equal(left, right) -> bool (ops.rs:33-62), arm by arm
ValuesEqual(left, right) ==
    LET a == Payload(left)
        b == Payload(right)
        L == left.tag
        R == right.tag
    IN  CASE L \in {"Null", "ZeroDateTime"} /\ R \in {"Null", "ZeroDateTime"} -> TRUE
          [] L = "Integer" /\ R = "Integer" -> a = b
          [] L = "UnsignedInteger" /\ R = "UnsignedInteger" -> a = b
          [] L = "Integer" /\ R = "UnsignedInteger" -> a >= 0 /\ AsU64(a) = b
          [] L = "UnsignedInteger" /\ R = "Integer" -> b >= 0 /\ a = AsU64(b)
          [] L = "Float" /\ R = "Float" -> F64Eq(a, b)
          [] L = "Year" /\ R = "Year" -> a = b
          [] L = "Year" /\ R = "Integer" -> I64FromI32(a) = b
          [] L = "Integer" /\ R = "Year" -> a = I64FromI32(b)
          [] L \in PlainTags /\ R = L -> a = b
          [] OTHER -> FALSE

ValInit ==
    /\ v_left \in Values
    /\ v_right \in Values
    /\ v_pc = "call"
    /\ v_result = FALSE

ValIdle ==
    /\ v_left = Null
    /\ v_right = Null
    /\ v_pc = "idle"
    /\ v_result = FALSE

\* values_equal(&left, &right) is evaluated
ValCall ==
    /\ v_pc = "call"
    /\ v_result' = ValuesEqual(v_left, v_right)
    /\ v_pc' = "done"
    /\ UNCHANGED <<v_left, v_right, notVal>>

ValNext == ValCall

----------------------------------------------------------------------------
(* Verifier: ops.rs rows_equal and verify_table_data *)

\* longest stream tried
MaxVerifyRows == 2

\* the table under verification: its name and its columns in schema order
VerTable == [name |-> "orders", columns |-> <<"id", "note">>]

\* rows as IndexMap<String, ForgeUniversalValue>; a row need not carry every
\* column of the table and may carry others
RowPool ==
    { [id |-> Value("Integer", 1), note |-> Opaque("Text", "a")],
      [id |-> Value("UnsignedInteger", 1), note |-> Opaque("Text", "a")],
      [id |-> Value("Integer", 1), note |-> Opaque("Text", "b")],
      [id |-> Value("Integer", 2), note |-> Opaque("Text", "b")],
      [id |-> Value("Integer", 1), note |-> ZeroDateTime],
      [id |-> Value("Integer", 1), extra |-> Opaque("Text", "a")] }

\* an item of a stream: Result<row, sqlx::Error>
OkRow(row) == [ok |-> TRUE, row |-> row]
ErrItem == [ok |-> FALSE, row |-> <<>>]
StreamItems == {OkRow(r) : r \in RowPool} \cup {ErrItem}

Streams == UNION {[1..n -> StreamItems] : n \in 0..MaxVerifyRows}

\* row.get(column).unwrap_or(&ForgeUniversalValue::Null)
RowGet(row, column) == IF column \in DOMAIN row THEN row[column] ELSE Null

\* the columns of `columns` on which the two rows differ, as indices
MismatchingColumns(columns, source_row, target_row) ==
    {i \in DOMAIN columns :
        ~ValuesEqual(RowGet(source_row, columns[i]), RowGet(target_row, columns[i]))}

Min(S) == CHOOSE x \in S : \A y \in S : x <= y
Max(S) == CHOOSE x \in S : \A y \in S : x >= y

\* rows_equal reporting the last mismatching column instead of the first
RowsEqualLast(columns, source_row, target_row) ==
    LET bad == MismatchingColumns(columns, source_row, target_row)
    IN  IF bad = {} THEN [ok |-> TRUE]
        ELSE LET c == columns[Max(bad)]
             IN  [ok |-> FALSE, column |-> c,
                  expected |-> RowGet(source_row, c), got |-> RowGet(target_row, c)]

\* fn rows_equal (ops.rs:64-80): Err for the first column, in the order of
\* `columns`, whose values are not values_equal
RowsEqual(columns, source_row, target_row) ==
    LET bad == MismatchingColumns(columns, source_row, target_row)
    IN  IF bad = {} THEN [ok |-> TRUE]
        ELSE LET c == columns[Min(bad)]
             IN  [ok |-> FALSE, column |-> c,
                  expected |-> RowGet(source_row, c), got |-> RowGet(target_row, c)]

\* the results of verify_table_data
VerOk == [kind |-> "ok"]
VerDbError == [kind |-> "db_error"]
VerRowCountMismatch(table) == [kind |-> "row_count_mismatch", table |-> table]
VerMismatch(table, m) ==
    [kind |-> "mismatch", table |-> table, column |-> m.column,
     expected |-> m.expected, got |-> m.got]
VerPending == [kind |-> "pending"]

\* stream.next().await: the item after the `pulled` already taken, or None
StreamNext(stream, pulled) ==
    IF pulled < Len(stream) THEN Some(stream[pulled + 1]) ELSE None

IsSomeOk(next) == next # None /\ next.v.ok
IsSomeErr(next) == next # None /\ ~next.v.ok

VerInit ==
    /\ vf_source \in Streams
    /\ vf_target \in Streams
    /\ vf_si = 0
    /\ vf_ti = 0
    /\ vf_source_next = None
    /\ vf_target_next = None
    /\ vf_pc = "open"
    /\ vf_result = VerPending

VerIdle ==
    /\ vf_source = <<>>
    /\ vf_target = <<>>
    /\ vf_si = 0
    /\ vf_ti = 0
    /\ vf_source_next = None
    /\ vf_target_next = None
    /\ vf_pc = "idle"
    /\ vf_result = VerPending

\* both stream_table_data_ordered(..).await? succeed (ops.rs:103-109)
VerOpenStreams ==
    /\ vf_pc = "open"
    /\ vf_pc' = "pull_source"
    /\ UNCHANGED <<vf_source, vf_target, vf_si, vf_ti, vf_source_next,
                   vf_target_next, vf_result, notVer>>

\* one of the two stream_table_data_ordered(..).await? fails
VerOpenErr ==
    /\ vf_pc = "open"
    /\ vf_result' = VerDbError
    /\ vf_pc' = "done"
    /\ UNCHANGED <<vf_source, vf_target, vf_si, vf_ti, vf_source_next,
                   vf_target_next, notVer>>

\* let source_next = source_stream.next().await (ops.rs:112)
VerPullSource ==
    /\ vf_pc = "pull_source"
    /\ vf_source_next' = StreamNext(vf_source, vf_si)
    /\ vf_si' = IF vf_si < Len(vf_source) THEN vf_si + 1 ELSE vf_si
    /\ vf_pc' = "pull_target"
    /\ UNCHANGED <<vf_source, vf_target, vf_ti, vf_target_next, vf_result, notVer>>

\* let target_next = target_stream.next().await (ops.rs:113)
VerPullTarget ==
    /\ vf_pc = "pull_target"
    /\ vf_target_next' = StreamNext(vf_target, vf_ti)
    /\ vf_ti' = IF vf_ti < Len(vf_target) THEN vf_ti + 1 ELSE vf_ti
    /\ vf_pc' = "match"
    /\ UNCHANGED <<vf_source, vf_target, vf_si, vf_source_next, vf_result, notVer>>

\* match (source_next, target_next) (ops.rs:115-136), the arms in order
VerMatch ==
    /\ vf_pc = "match"
    /\ LET outcome ==
             IF vf_source_next = None /\ vf_target_next = None
                 THEN [pc |-> "done", result |-> VerOk]
             ELSE IF IsSomeErr(vf_source_next) \/ IsSomeErr(vf_target_next)
                 THEN [pc |-> "done", result |-> VerDbError]
             ELSE IF IsSomeOk(vf_source_next) /\ IsSomeOk(vf_target_next)
                 THEN LET m == RowsEqual(VerTable.columns, vf_source_next.v.row,
                                         vf_target_next.v.row)
                      IN  IF m.ok THEN [pc |-> "pull_source", result |-> VerPending]
                          ELSE [pc |-> "done", result |-> VerMismatch(VerTable.name, m)]
             ELSE [pc |-> "done", result |-> VerRowCountMismatch(VerTable.name)]
       IN  /\ vf_pc' = outcome.pc
           /\ vf_result' = outcome.result
    /\ UNCHANGED <<vf_source, vf_target, vf_si, vf_ti, vf_source_next,
                   vf_target_next, notVer>>

VerNext == VerOpenStreams \/ VerOpenErr \/ VerPullSource \/ VerPullTarget \/ VerMatch

----------------------------------------------------------------------------
(* Schema IR (core.rs) and the live target database *)

\* ForgeSchemaColumn: the fields the differs read; a column built here is
\* neither auto-increment nor ON UPDATE
Column(name, data_type, length, is_nullable, default, is_primary_key) ==
    [name |-> name, data_type |-> data_type, length |-> length,
     is_nullable |-> is_nullable, default |-> default,
     is_primary_key |-> is_primary_key,
     auto_increment |-> FALSE, on_update |-> None]

\* the same column with the two attributes MySQL reads from the Extra field
ColumnExtra(column, auto_increment, on_update) ==
    [column EXCEPT !.auto_increment = auto_increment, !.on_update = on_update]

\* ForgeSchemaIndex
Index(name, columns, is_unique, index_type, column_prefixes) ==
    [name |-> name, columns |-> columns, is_unique |-> is_unique,
     index_type |-> index_type, column_prefixes |-> column_prefixes]

\* ForgeSchemaTable
SchemaTable(name, columns, indices) ==
    [name |-> name, columns |-> columns, indices |-> indices]

Drivers == {"mysql", "postgres"}

\* the sequences over S without repetition that hold every element of S
Orderings(S) ==
    {q \in [1..Cardinality(S) -> S] : \A i, j \in DOMAIN q : i # j => q[i] # q[j]}

\* the subsequence of `order` of the elements in S
Ordered(order, S) == SelectSeq(order, LAMBDA x : x \in S)

RECURSIVE Flatten(_)
Flatten(ss) == IF ss = <<>> THEN <<>> ELSE Head(ss) \o Flatten(Tail(ss))

\* --- the desired schemas tried

ColId == Column("id", "int", None, FALSE, None, TRUE)
ColLocale(len) == Column("locale", "varchar", Some(len), TRUE, None, FALSE)
ColNote(default) == Column("note", "text", None, TRUE, default, FALSE)

DesiredLocale == {<<>>, <<ColLocale(8)>>, <<ColLocale(16)>>}
DesiredNote == {<<>>, <<ColNote(None)>>, <<ColNote(Some("'x'::text"))>>}
DesiredUserIndices ==
    {<<>>,
     <<Index("idx_users", <<"id">>, FALSE, Some("BTREE"), None)>>,
     <<Index("idx_users", <<"id">>, FALSE, None, None)>>}

DesiredUsers ==
    {SchemaTable("users", <<ColId>> \o l \o n, ix) :
        l \in DesiredLocale, n \in DesiredNote, ix \in DesiredUserIndices}

DesiredOrders ==
    SchemaTable("orders", <<ColId>>,
                <<Index("idx_o2", <<"id">>, FALSE, Some("BTREE"), None),
                  Index("idx_o1", <<"id">>, FALSE, Some("BTREE"), None)>>)

\* the desired table lists: users, or users before orders
DesiredSchemas ==
    {<<u>> : u \in DesiredUsers} \cup {<<u, DesiredOrders>> : u \in DesiredUsers}

\* --- the live database: what CREATE/ALTER leave behind and SHOW / the
\* information schema report

CatalogColumn(name, type, length, nullable, default) ==
    [name |-> name, type |-> type, length |-> length, nullable |-> nullable,
     default |-> default]

CatalogIndex(name, columns, is_unique) ==
    [name |-> name, columns |-> columns, is_unique |-> is_unique]

CatalogTable(name, columns, primary_key, indices) ==
    [name |-> name, columns |-> columns, primary_key |-> primary_key,
     indices |-> indices]

\* the type name the engine stores and reports for a type name of a statement
CatalogType(driver, sql_type) ==
    IF driver = "postgres"
    THEN CASE sql_type \in {"int", "integer"} -> "integer"
           [] sql_type \in {"varchar", "character varying"} -> "character varying"
           [] OTHER -> sql_type
    ELSE CASE sql_type \in {"int", "integer"} -> "int"
           [] OTHER -> sql_type

\* MySQL reports a display width for an int column (int(11))
CatId(driver) ==
    CatalogColumn("id", CatalogType(driver, "int"),
                  IF driver = "mysql" THEN Some(11) ELSE None, FALSE, None)

CatLocale(driver, nullable) ==
    CatalogColumn("locale", CatalogType(driver, "varchar"), Some(8), nullable, None)

CatNote(driver) == CatalogColumn("note", "text", None, TRUE, None)

\* the users tables tried. MySQL compares index definitions, so both a
\* plain and a unique idx_users are tried there; PostgreSQL lists the index
\* of a primary key, so tables with and without one are tried there
TargetUsers(driver) ==
    IF driver = "mysql"
    THEN {CatalogTable("users", <<CatId(driver)>> \o l \o n, <<"id">>, ix) :
            l \in {<<>>, <<CatLocale(driver, TRUE)>>},
            n \in {<<>>, <<CatNote(driver)>>},
            ix \in {{}, {CatalogIndex("idx_users", <<"id">>, FALSE)},
                    {CatalogIndex("idx_users", <<"id">>, TRUE)}}}
    ELSE {CatalogTable("users", <<CatId(driver)>> \o l \o n, pk, ix) :
            l \in {<<>>, <<CatLocale(driver, TRUE)>>, <<CatLocale(driver, FALSE)>>},
            n \in {<<>>, <<CatNote(driver)>>},
            pk \in {<<>>, <<"id">>},
            ix \in {{}, {CatalogIndex("idx_users", <<"id">>, TRUE)}}}

TargetOrders(driver) == CatalogTable("orders", <<CatId(driver)>>, <<"id">>, {})

TargetLegacy(driver) == CatalogTable("legacy_audit", <<CatId(driver)>>, <<"id">>, {})

\* the live databases tried: sets of tables with distinct names
TargetCatalogs(driver) ==
    {u \cup o \cup l :
        u \in {{}} \cup {{t} : t \in TargetUsers(driver)},
        o \in {{}, {TargetOrders(driver)}},
        l \in {{}, {TargetLegacy(driver)}}}

\* a fixed alphabetical order of the names in use
NameOrder ==
    <<"idx_o1", "idx_o2", "idx_users", "legacy_audit", "legacy_audit_pkey",
      "orders", "orders_pkey", "users", "users_pkey">>

CatalogTableOf(catalog, name) == CHOOSE t \in catalog : t.name = name

CatalogNames(catalog) == {t.name : t \in catalog}

----------------------------------------------------------------------------
(* Statements, as the parts the drivers format into SQL text *)

StmtCreateTable(table, columns, primary_key) ==
    [op |-> "CREATE TABLE", table |-> table, columns |-> columns,
     primary_key |-> primary_key]
StmtAddColumn(table, def) == [op |-> "ADD COLUMN", table |-> table, def |-> def]
StmtModifyColumn(table, def) == [op |-> "MODIFY COLUMN", table |-> table, def |-> def]
StmtAlterColumn(table, column, type, is_nullable) ==
    [op |-> "ALTER COLUMN", table |-> table, column |-> column, type |-> type,
     null |-> IF is_nullable THEN "DROP NULL" ELSE "SET NULL"]
StmtDropColumn(table, column) == [op |-> "DROP COLUMN", table |-> table, column |-> column]
StmtCreateIndex(table, index) == [op |-> "CREATE INDEX", table |-> table, index |-> index]
StmtDropIndex(table, name) == [op |-> "DROP INDEX", table |-> table, name |-> name]
StmtDropIndexIfExists(name) == [op |-> "DROP INDEX", name |-> name]
StmtDropTable(table) == [op |-> "DROP TABLE", table |-> table]

\* every way to pick one element from each set of a sequence of sets
SeqProduct(sets) ==
    {q \in [DOMAIN sets -> UNION Range(sets)] : \A i \in DOMAIN sets : q[i] \in sets[i]}

\* HashMap<String, &T> filled by inserting the entries of a Vec in order:
\* the entry found for a name is the last one of that name
HasName(entries, name) == \E i \in DOMAIN entries : entries[i].name = name
GetByName(entries, name) ==
    entries[CHOOSE i \in DOMAIN entries :
               /\ entries[i].name = name
               /\ \A j \in DOMAIN entries : entries[j].name = name => j <= i]
NamesOf(entries) == {entries[i].name : i \in DOMAIN entries}

----------------------------------------------------------------------------
(* MySQL driver: drivers/mysql.rs *)

\* the types whose length fetch_columns parses and field_migration_sql prints
MyLengthTypes ==
    {"char", "varchar", "binary", "varbinary", "bit", "datetime", "timestamp", "time"}

\* sql_type contains "text" or "blob", or is "json"
MySkipDefault(sql_type) ==
    sql_type \in {"text", "tinytext", "mediumtext", "longtext", "blob", "tinyblob",
                  "mediumblob", "longblob", "json"}

\* fetch_columns (mysql.rs:122-256) on one row of SHOW FULL FIELDS; no
\* on_read type list is configured, so the data type is the lower-cased
\* base type of the Type column
MyFetchColumn(t, c) ==
    Column(c.name, c.type,
           IF c.type \in MyLengthTypes THEN c.length ELSE None,
           c.nullable, c.default, c.name \in Range(t.primary_key))

\* the rows of SHOW INDEX by key name: the secondary indices and PRIMARY
MyShowIndex(t) ==
    {[Key_name |-> ix.name, columns |-> ix.columns, is_unique |-> ix.is_unique,
      Index_type |-> "BTREE"] : ix \in t.indices}
    \cup (IF t.primary_key = <<>> THEN {}
          ELSE {[Key_name |-> "PRIMARY", columns |-> t.primary_key,
                 is_unique |-> TRUE, Index_type |-> "BTREE"]})

\* fetch_indices (mysql.rs:276-351): PRIMARY is skipped; the Vec is
\* collected from a HashMap, in any order
MyFetchIndices(t) ==
    Orderings({Index(r.Key_name, r.columns, r.is_unique, Some(r.Index_type), None) :
                  r \in {x \in MyShowIndex(t) : x.Key_name # "PRIMARY"}})

MyFetchTable(t) ==
    {SchemaTable(t.name, [i \in DOMAIN t.columns |-> MyFetchColumn(t, t.columns[i])], ixs) :
        ixs \in MyFetchIndices(t)}

\* fetch_schema (mysql.rs:925-960): the tables in the order of SHOW TABLE
\* STATUS (by name)
MyFetchSchemas(catalog) ==
    LET names == Ordered(NameOrder, CatalogNames(catalog))
    IN  SeqProduct([i \in DOMAIN names |-> MyFetchTable(CatalogTableOf(catalog, names[i]))])

\* field_migration_sql (mysql.rs:362-446): the parts of the column definition
MyFieldMigrationSql(field) ==
    LET sql_type == field.data_type
        skip_default == MySkipDefault(sql_type)
    IN  [name |-> field.name,
         sql_type |-> sql_type,
         length |-> IF sql_type \in MyLengthTypes THEN field.length ELSE None,
         null |-> IF field.is_nullable THEN "NULL" ELSE "NOT NULL",
         default |-> IF field.default # None /\ ~skip_default THEN field.default
                     ELSE IF field.is_nullable /\ field.default = None /\ ~skip_default
                          THEN Some("NULL")
                          ELSE None,
         auto_increment |-> field.auto_increment,
         on_update |-> field.on_update]

\* build_mysql_create_table_sql (mysql.rs:450-472)
MyBuildCreateTable(table) ==
    StmtCreateTable(table.name,
                    [i \in DOMAIN table.columns |-> MyFieldMigrationSql(table.columns[i])],
                    [i \in DOMAIN SelectSeq(table.columns, LAMBDA c : c.is_primary_key) |->
                        SelectSeq(table.columns, LAMBDA c : c.is_primary_key)[i].name])

\* to_uppercase on the index type names in use
ToUppercase(s) ==
    CASE s \in {"btree", "BTREE"} -> "BTREE"
      [] s \in {"fulltext", "FULLTEXT"} -> "FULLTEXT"
      [] OTHER -> s

\* build_mysql_create_index_sql (mysql.rs:661-699)
MyBuildCreateIndex(table_name, index) ==
    LET index_type == IF index.index_type = None THEN ""
                      ELSE ToUppercase(index.index_type.v)
        special == index_type \in {"FULLTEXT", "SPATIAL"}
    IN  StmtCreateIndex(table_name,
            [name |-> index.name,
             unique |-> index.is_unique /\ ~special,
             type_prefix |-> IF special THEN index_type ELSE "",
             columns |-> index.columns,
             prefixes |-> [i \in DOMAIN index.columns |->
                             IF index.column_prefixes # None
                                /\ i \in DOMAIN index.column_prefixes.v
                             THEN index.column_prefixes.v[i] ELSE None]])

\* create_table_migration_sql (mysql.rs:474-488)
MyCreateTableMigration(table) ==
    <<MyBuildCreateTable(table)>>
    \o [i \in DOMAIN table.indices |-> MyBuildCreateIndex(table.name, table.indices[i])]

\* delete_table_migration_sql (mysql.rs:490-496)
MyDeleteTableMigration(table) == <<StmtDropTable(table.name)>>

\* s.parse::<f64>().ok() on an optional default
ParseF64(default) ==
    IF default = None THEN None
    ELSE CASE default.v \in {"1", "1.0"} -> Some(1)
           [] default.v \in {"0", "0.0"} -> Some(0)
           [] default.v \in {"2", "2.0"} -> Some(2)
           [] OTHER -> None

\* modify_column_migration (mysql.rs:611-645): empty when nothing changed
MyModifyColumn(table_name, src_col, dst_col) ==
    LET changed ==
            \/ src_col.data_type # dst_col.data_type
            \/ src_col.length # dst_col.length
            \/ src_col.is_nullable # dst_col.is_nullable
            \/ IF src_col.data_type = "float"
               THEN ParseF64(src_col.default) # ParseF64(dst_col.default)
               ELSE src_col.default # dst_col.default
    IN  IF changed THEN <<StmtModifyColumn(table_name, MyFieldMigrationSql(src_col))>>
        ELSE <<>>

\* an index type compared ignoring ASCII case, None as the empty string
IndexTypeKey(index_type) ==
    IF index_type = None THEN "" ELSE ToUppercase(index_type.v)

PrefixesOf(index) ==
    IF index.column_prefixes = None THEN [i \in DOMAIN index.columns |-> None]
    ELSE index.column_prefixes.v

\* indices_equal (mysql.rs:709-744)
MyIndicesEqual(a, b) ==
    /\ a.is_unique = b.is_unique
    /\ IndexTypeKey(a.index_type) = IndexTypeKey(b.index_type)
    /\ Len(a.columns) = Len(b.columns)
    /\ Len(PrefixesOf(a)) = Len(PrefixesOf(b))
    /\ \A i \in DOMAIN a.columns :
          /\ b.columns[i] = a.columns[i]
          /\ (IF i \in DOMAIN PrefixesOf(a) THEN Some(PrefixesOf(a)[i]) ELSE None)
             = (IF i \in DOMAIN PrefixesOf(b) THEN Some(PrefixesOf(b)[i]) ELSE None)

\* alter_table_migration_sql, columns (mysql.rs:506-548)
MyAlterColumns(src_table, dst_table, destructive) ==
    Flatten([i \in DOMAIN src_table.columns |->
        LET src_col == src_table.columns[i]
        IN  IF HasName(dst_table.columns, src_col.name)
            THEN MyModifyColumn(src_table.name, src_col,
                                GetByName(dst_table.columns, src_col.name))
            ELSE <<StmtAddColumn(src_table.name, MyFieldMigrationSql(src_col))>>])
    \o (IF destructive
        THEN Flatten([i \in DOMAIN dst_table.columns |->
                IF HasName(src_table.columns, dst_table.columns[i].name) THEN <<>>
                ELSE <<StmtDropColumn(dst_table.name, dst_table.columns[i].name)>>])
        ELSE <<>>)

\* the statements for one desired index name (mysql.rs:562-578)
MyAlterIndex(src_table, dst_table, name) ==
    LET src_idx == GetByName(src_table.indices, name)
    IN  IF ~HasName(dst_table.indices, name)
        THEN <<MyBuildCreateIndex(src_table.name, src_idx)>>
        ELSE IF ~MyIndicesEqual(GetByName(dst_table.indices, name), src_idx)
             THEN <<StmtDropIndex(src_table.name, name),
                    MyBuildCreateIndex(src_table.name, src_idx)>>
             ELSE <<>>

\* alter_table_migration_sql, indices (mysql.rs:550-590): both loops run
\* over the entries of a HashMap, in any order
MyAlterIndices(src_table, dst_table, destructive) ==
    {Flatten([i \in DOMAIN o1 |-> MyAlterIndex(src_table, dst_table, o1[i])])
     \o (IF destructive
         THEN Flatten([i \in DOMAIN o2 |->
                 IF HasName(src_table.indices, o2[i]) THEN <<>>
                 ELSE <<StmtDropIndex(dst_table.name, o2[i])>>])
         ELSE <<>>) :
        o1 \in Orderings(NamesOf(src_table.indices)),
        o2 \in Orderings(NamesOf(dst_table.indices))}

\* alter_table_migration_sql (mysql.rs:497-593)
MyAlterTableMigration(src_table, dst_table, destructive) ==
    {MyAlterColumns(src_table, dst_table, destructive) \o ix :
        ix \in MyAlterIndices(src_table, dst_table, destructive)}

----------------------------------------------------------------------------
(* PostgreSQL driver: drivers/postgres.rs *)

\* the configured type lists of the postgres section: on_write maps the IR
\* names to PostgreSQL's, on_read maps them back
PgOnWriteTypes == [t \in {"int", "varchar"} |->
                      IF t = "int" THEN "integer" ELSE "character varying"]
PgOnReadTypes == [t \in {"integer", "character varying"} |->
                     IF t = "integer" THEN "int" ELSE "varchar"]

\* map_to_postgres_write_type (postgres.rs:233-242)
MapToPostgresWriteType(internal_type) ==
    IF internal_type \in DOMAIN PgOnWriteTypes THEN PgOnWriteTypes[internal_type]
    ELSE internal_type

\* map_postgres_type (postgres.rs:71-79)
MapPostgresType(pg_type) ==
    IF pg_type \in DOMAIN PgOnReadTypes THEN PgOnReadTypes[pg_type] ELSE pg_type

\* fetch_columns (postgres.rs:81-147) on one row of information_schema.columns,
\* with the primary-key mark of fetch_schema (postgres.rs:598-618)
PgFetchColumn(t, c) ==
    Column(c.name, MapPostgresType(c.type), c.length, c.nullable, c.default,
           c.name \in Range(t.primary_key))

\* the index PostgreSQL keeps for a PRIMARY KEY constraint
PkeyName(table_name) ==
    CASE table_name = "users" -> "users_pkey"
      [] table_name = "orders" -> "orders_pkey"
      [] OTHER -> "legacy_audit_pkey"

\* the rows of pg_index for the table, the primary-key index included
PgIndexRows(t) ==
    {[name |-> ix.name, columns |-> ix.columns, is_unique |-> ix.is_unique] :
        ix \in t.indices}
    \cup (IF t.primary_key = <<>> THEN {}
          ELSE {[name |-> PkeyName(t.name), columns |-> t.primary_key,
                 is_unique |-> TRUE]})

\* fetch_indices (postgres.rs:149-193): every row is kept, ordered by name
PgFetchIndices(t) ==
    LET rows == PgIndexRows(t)
        names == Ordered(NameOrder, {r.name : r \in rows})
    IN  [i \in DOMAIN names |->
            LET r == CHOOSE r \in rows : r.name = names[i]
            IN  Index(r.name, r.columns, r.is_unique, None, None)]

PgFetchTable(t) ==
    SchemaTable(t.name, [i \in DOMAIN t.columns |-> PgFetchColumn(t, t.columns[i])],
                PgFetchIndices(t))

\* fetch_schema (postgres.rs:584-634): fetch_tables has no ORDER BY
PgFetchSchemas(catalog) ==
    {[i \in DOMAIN o |-> PgFetchTable(CatalogTableOf(catalog, o[i]))] :
        o \in Orderings(CatalogNames(catalog))}

\* field_migration_sql (postgres.rs:245-292)
PgFieldMigrationSql(field) ==
    LET t == MapToPostgresWriteType(field.data_type)
    IN  [name |-> field.name,
         sql_type |-> t,
         identity |-> field.auto_increment,
         length |-> IF /\ ~field.auto_increment
                       /\ t \in {"character varying", "varchar", "character", "char"}
                    THEN field.length ELSE None,
         not_null |-> ~field.is_nullable,
         default |-> IF field.auto_increment THEN None ELSE field.default]

\* build_postgres_create_table_sql (postgres.rs:295-307): no key clause
PgBuildCreateTable(table) ==
    StmtCreateTable(table.name,
                    [i \in DOMAIN table.columns |-> PgFieldMigrationSql(table.columns[i])],
                    <<>>)

\* build_postgres_create_index_sql (postgres.rs:422-431)
PgBuildCreateIndex(table_name, index) ==
    StmtCreateIndex(table_name,
                    [name |-> index.name, unique |-> index.is_unique,
                     columns |-> index.columns])

\* create_table_migration_sql (postgres.rs:309-322)
PgCreateTableMigration(table) ==
    <<PgBuildCreateTable(table)>>
    \o [i \in DOMAIN table.indices |-> PgBuildCreateIndex(table.name, table.indices[i])]

\* delete_table_migration_sql (postgres.rs:324-332)
PgDeleteTableMigration(table) == <<StmtDropTable(table.name)>>

\* alter_table_migration_sql (postgres.rs:334-419)
PgAlterTableMigration(source_table, target_table, destructive) ==
    Flatten([i \in DOMAIN source_table.columns |->
        LET source_col == source_table.columns[i]
        IN  IF HasName(target_table.columns, source_col.name)
            THEN LET target_col == GetByName(target_table.columns, source_col.name)
                 IN  IF \/ source_col.data_type # target_col.data_type
                        \/ source_col.is_nullable # target_col.is_nullable
                     THEN <<StmtAlterColumn(source_table.name, source_col.name,
                                            source_col.data_type, source_col.is_nullable)>>
                     ELSE <<>>
            ELSE <<StmtAddColumn(source_table.name, PgFieldMigrationSql(source_col))>>])
    \o (IF destructive
        THEN Flatten([i \in DOMAIN target_table.columns |->
                IF HasName(source_table.columns, target_table.columns[i].name) THEN <<>>
                ELSE <<StmtDropColumn(source_table.name, target_table.columns[i].name)>>])
        ELSE <<>>)
    \o Flatten([i \in DOMAIN source_table.indices |->
          IF HasName(target_table.indices, source_table.indices[i].name) THEN <<>>
          ELSE <<PgBuildCreateIndex(source_table.name, source_table.indices[i])>>])
    \o (IF destructive
        THEN Flatten([i \in DOMAIN target_table.indices |->
                IF HasName(source_table.indices, target_table.indices[i].name) THEN <<>>
                ELSE <<StmtDropIndexIfExists(target_table.indices[i].name)>>])
        ELSE <<>>)

----------------------------------------------------------------------------
(* diff_and_apply_schema of both drivers *)

\* longest chain of calls made with the same arguments
MaxRuns == 2

FetchSchemas(driver, catalog) ==
    IF driver = "mysql" THEN MyFetchSchemas(catalog) ELSE PgFetchSchemas(catalog)

CreateTableMigration(driver, table) ==
    IF driver = "mysql" THEN MyCreateTableMigration(table)
    ELSE PgCreateTableMigration(table)

AlterTableMigration(driver, source_table, target_table, destructive) ==
    IF driver = "mysql" THEN MyAlterTableMigration(source_table, target_table, destructive)
    ELSE {PgAlterTableMigration(source_table, target_table, destructive)}

DeleteTableMigration(driver, table) ==
    IF driver = "mysql" THEN MyDeleteTableMigration(table)
    ELSE PgDeleteTableMigration(table)

\* the statements for one desired table (mysql.rs:987-1002, postgres.rs:657-670)
TableStatements(driver, source_table, target, destructive) ==
    IF HasName(target, source_table.name)
    THEN AlterTableMigration(driver, source_table,
                             GetByName(target, source_table.name), destructive)
    ELSE {CreateTableMigration(driver, source_table)}

\* the DROP TABLE loop without its `if destructive`
DropTargetOnlyAlways(driver, desired, target, destructive) ==
    Flatten([i \in DOMAIN target |->
        IF HasName(desired, target[i].name) THEN <<>>
        ELSE DeleteTableMigration(driver, target[i])])

\* the loop over the target's tables (mysql.rs:1004-1012, postgres.rs:672-679)
DropTargetOnly(driver, desired, target, destructive) ==
    IF destructive
    THEN Flatten([i \in DOMAIN target |->
            IF HasName(desired, target[i].name) THEN <<>>
            ELSE DeleteTableMigration(driver, target[i])])
    ELSE <<>>

\* the loops of diff_and_apply_schema in the other order: the target-only
\* tables first
DiffStatementsDropsFirst(driver, desired, target, destructive) ==
    {(IF destructive
      THEN Flatten([i \in DOMAIN target |->
              IF HasName(desired, target[i].name) THEN <<>>
              ELSE DeleteTableMigration(driver, target[i])])
      ELSE <<>>) \o Flatten(per_table) :
        per_table \in SeqProduct([i \in DOMAIN desired |->
                        TableStatements(driver, desired[i], target, destructive)])}

\* all_statements as diff_and_apply_schema builds it (mysql.rs:974-1012,
\* postgres.rs:645-679)
DiffStatements(driver, desired, target, destructive) ==
    {Flatten(per_table) \o DropTargetOnly(driver, desired, target, destructive) :
        per_table \in SeqProduct([i \in DOMAIN desired |->
                        TableStatements(driver, desired[i], target, destructive)])}

\* --- what an executed statement does to the live database

ColumnOfDef(driver, def) ==
    IF driver = "mysql"
    THEN CatalogColumn(def.name, CatalogType(driver, def.sql_type), def.length,
                       def.null = "NULL",
                       IF def.default = Some("NULL") THEN None ELSE def.default)
    ELSE CatalogColumn(def.name, CatalogType(driver, def.sql_type), def.length,
                       ~def.not_null, def.default)

ReplaceTable(catalog, t) == {x \in catalog : x.name # t.name} \cup {t}

ApplyToTable(driver, stmt, t) ==
    CASE stmt.op = "ADD COLUMN" ->
            [t EXCEPT !.columns = Append(@, ColumnOfDef(driver, stmt.def))]
      [] stmt.op = "MODIFY COLUMN" ->
            [t EXCEPT !.columns = [i \in DOMAIN @ |->
                IF @[i].name = stmt.def.name THEN ColumnOfDef(driver, stmt.def) ELSE @[i]]]
      [] stmt.op = "DROP COLUMN" ->
            [t EXCEPT !.columns = SelectSeq(@, LAMBDA c : c.name # stmt.column)]
      [] stmt.op = "CREATE INDEX" ->
            [t EXCEPT !.indices = @ \cup {CatalogIndex(stmt.index.name, stmt.index.columns,
                                                       stmt.index.unique)}]
      [] stmt.op = "DROP INDEX" ->
            [t EXCEPT !.indices = {ix \in @ : ix.name # stmt.name}]

\* the database after the statement succeeded
Apply(driver, stmt, catalog) ==
    CASE stmt.op = "CREATE TABLE" ->
            catalog \cup {CatalogTable(stmt.table,
                            [i \in DOMAIN stmt.columns |-> ColumnOfDef(driver, stmt.columns[i])],
                            stmt.primary_key, {})}
      [] stmt.op = "DROP TABLE" -> {t \in catalog : t.name # stmt.table}
      [] stmt.op = "DROP INDEX" /\ driver = "postgres" ->
            {ApplyToTable(driver, stmt, t) : t \in catalog}
      [] OTHER ->
            ReplaceTable(catalog, ApplyToTable(driver, stmt, CatalogTableOf(catalog, stmt.table)))

\* PostgreSQL refuses to drop the index that backs a primary key, and its
\* grammar has ALTER COLUMN c {SET | DROP} NOT NULL only: the statement of
\* postgres.rs:357-368, which ends in "DROP NULL" or "SET NULL", is a syntax
\* error
CanSucceed(driver, stmt, catalog) ==
    /\ ~(/\ driver = "postgres"
         /\ stmt.op = "DROP INDEX"
         /\ \E t \in catalog : t.primary_key # <<>> /\ PkeyName(t.name) = stmt.name)
    /\ ~(stmt.op = "ALTER COLUMN" /\ stmt.null \in {"DROP NULL", "SET NULL"})

Returned(ok, stmts) == [ok |-> ok, stmts |-> stmts]

DiffInit ==
    /\ d_driver \in Drivers
    /\ d_desired \in DesiredSchemas
    /\ d_dry_run \in BOOLEAN
    /\ d_destructive \in BOOLEAN
    /\ d_catalog \in TargetCatalogs(d_driver)
    /\ d_target = <<>>
    /\ d_stmts = <<>>
    /\ d_next = 0
    /\ d_pc = "call"
    /\ d_returned = <<>>

DiffIdle ==
    /\ d_driver = "mysql"
    /\ d_desired = <<>>
    /\ d_dry_run = FALSE
    /\ d_destructive = FALSE
    /\ d_catalog = {}
    /\ d_target = <<>>
    /\ d_stmts = <<>>
    /\ d_next = 0
    /\ d_pc = "idle"
    /\ d_returned = <<>>

\* diff_and_apply_schema up to the execution loop: fetch_schema, then the
\* statement list; a dry run returns it at once
DiffGenerate ==
    /\ d_pc = "call"
    /\ \E target \in FetchSchemas(d_driver, d_catalog) :
         \E stmts \in DiffStatements(d_driver, d_desired, target, d_destructive) :
            /\ d_target' = target
            /\ d_stmts' = stmts
            /\ IF d_dry_run
               THEN /\ d_pc' = "returned"
                    /\ d_returned' = Append(d_returned, Returned(TRUE, stmts))
                    /\ d_next' = 0
               ELSE /\ d_pc' = "exec"
                    /\ d_returned' = d_returned
                    /\ d_next' = 1
    /\ UNCHANGED <<d_driver, d_desired, d_dry_run, d_destructive, d_catalog, notDiff>>

\* sqlx::query(sql).execute(..).await succeeds for the next statement
DiffExecOk ==
    /\ d_pc = "exec"
    /\ d_next \in DOMAIN d_stmts
    /\ CanSucceed(d_driver, d_stmts[d_next], d_catalog)
    /\ d_catalog' = Apply(d_driver, d_stmts[d_next], d_catalog)
    /\ d_next' = d_next + 1
    /\ UNCHANGED <<d_driver, d_desired, d_dry_run, d_destructive, d_target, d_stmts,
                   d_pc, d_returned, notDiff>>

\* the statements returned although one of them failed
ReturnedListOnError(stmts) == Returned(TRUE, stmts)

\* execute(..).await?: the error is what the call returns
ReturnedOnError(stmts) == Returned(FALSE, <<>>)

\* the statement fails: `?` returns the error, nothing is rolled back
DiffExecErr ==
    /\ d_pc = "exec"
    /\ d_next \in DOMAIN d_stmts
    /\ d_pc' = "returned"
    /\ d_returned' = Append(d_returned, ReturnedOnError(d_stmts))
    /\ UNCHANGED <<d_driver, d_desired, d_dry_run, d_destructive, d_catalog, d_target,
                   d_stmts, d_next, notDiff>>

\* every statement was executed: Ok(all_statements)
DiffReturn ==
    /\ d_pc = "exec"
    /\ d_next = Len(d_stmts) + 1
    /\ d_pc' = "returned"
    /\ d_returned' = Append(d_returned, Returned(TRUE, d_stmts))
    /\ UNCHANGED <<d_driver, d_desired, d_dry_run, d_destructive, d_catalog, d_target,
                   d_stmts, d_next, notDiff>>

\* after a successful call the caller runs the command again with the
\* same arguments
DiffCallAgain ==
    /\ d_pc = "returned"
    /\ Len(d_returned) < MaxRuns
    /\ d_returned[Len(d_returned)].ok
    /\ d_pc' = "call"
    /\ d_next' = 0
    /\ UNCHANGED <<d_driver, d_desired, d_dry_run, d_destructive, d_catalog, d_target,
                   d_stmts, d_returned, notDiff>>

DiffNext == DiffGenerate \/ DiffExecOk \/ DiffExecErr \/ DiffReturn \/ DiffCallAgain

----------------------------------------------------------------------------
(* bind_universal and insert_chunk of both drivers *)

MaxChunkRows == 3

\* what a query parameter or a stored cell holds
SqlNull == [sql |-> "NULL"]
SqlParam(val) == [sql |-> "value", val |-> val]
SqlText(s) == [sql |-> "text", s |-> s]

ZeroDateLiteral == "0000-00-00 00:00:00"

\* `*u as i64`
AsI64(u) == IF u > I64Max THEN u - 2^IntBits ELSE u

\* a plausible slip: the zero-date literal bound for Null as well
MyBindUniversalNullAsZeroDate(zero_date_on_write, val) ==
    CASE val.tag \in {"Null", "ZeroDateTime"} ->
            IF zero_date_on_write THEN SqlText(ZeroDateLiteral) ELSE SqlNull
      [] val.tag \in {"Uuid", "Inet"} -> SqlParam(Opaque("Text", val.p))
      [] OTHER -> SqlParam(val)

\* MySqlDriver::bind_universal
MyBindUniversal(zero_date_on_write, val) ==
    CASE val.tag = "Null" -> SqlNull
      [] val.tag = "ZeroDateTime" ->
            IF zero_date_on_write THEN SqlText(ZeroDateLiteral) ELSE SqlNull
      [] val.tag \in {"Uuid", "Inet"} -> SqlParam(Opaque("Text", val.p))
      [] OTHER -> SqlParam(val)

\* PostgresDriver::bind_universal
PgBindUniversal(val) ==
    CASE val.tag \in {"Null", "ZeroDateTime"} -> SqlNull
      [] val.tag = "UnsignedInteger" -> SqlParam(Value("Integer", AsI64(val.v)))
      [] OTHER -> SqlParam(val)

BindUniversal(driver, zero_date_on_write, val) ==
    IF driver = "mysql" THEN MyBindUniversal(zero_date_on_write, val)
    ELSE PgBindUniversal(val)

\* the value list of the row-by-row INSERT of the PostgreSQL driver: Null and
\* ZeroDateTime are written as the literal NULL, every other value is bound
PgRetryValue(val) ==
    IF val.tag \in {"Null", "ZeroDateTime"} THEN SqlNull
    ELSE IF val.tag = "Json" THEN SqlParam(val)
    ELSE PgBindUniversal(val)

\* the cell of a DATETIME column as MySqlDriver::map_row_to_universal_values
\* and handle_datetime decode it
MyDecodeDatetime(cell) ==
    IF cell.sql = "NULL" THEN Null
    ELSE IF cell.sql = "text" /\ cell.s = ZeroDateLiteral THEN ZeroDateTime
    ELSE cell.val

\* the cell of a TIMESTAMP column as PostgresDriver::map_row_to_universal_values
\* decodes it
PgDecodeTimestamp(cell) ==
    IF cell.sql = "NULL" THEN Null ELSE cell.val

DecodeDatetime(driver, cell) ==
    IF driver = "mysql" THEN MyDecodeDatetime(cell) ELSE PgDecodeTimestamp(cell)

\* the chunk's table and the columns taken from the first row
InsTable == "orders"
InsColumns == <<"id", "dob">>

\* rows of the stream: an integer key and a date-time column
InsKeys == {1, 2}
InsDobs == {Null, ZeroDateTime, Opaque("DateTime", "2024-01-01 00:00:00")}
InsRow(k, dob) == [id |-> Value("Integer", k), dob |-> dob]
InsRows == {InsRow(k, d) : k \in InsKeys, d \in InsDobs}
InsChunks == UNION {[1..n -> InsRows] : n \in 0..MaxChunkRows}

\* the row as the statement writes it
BoundRow(driver, zero_date_on_write, row) ==
    [c \in DOMAIN row |-> BindUniversal(driver, zero_date_on_write, row[c])]
RetryRow(driver, zero_date_on_write, row) ==
    IF driver = "mysql" THEN BoundRow(driver, zero_date_on_write, row)
    ELSE [c \in DOMAIN row |-> PgRetryValue(row[c])]

\* the target table has a unique key on id
StoredIds(table) == {table[j].id : j \in DOMAIN table}
Violates(table, stored_row) == stored_row.id \in StoredIds(table)

\* the multi-row INSERT is one statement: it inserts every row or none
BatchViolates(table, rows) ==
    \/ \E j \in DOMAIN rows : Violates(table, rows[j])
    \/ \E j, k \in DOMAIN rows : j # k /\ rows[j].id = rows[k].id

InsOk == [ok |-> TRUE]
InsErr(e) == [ok |-> FALSE, err |-> e]
BatchError == [statement |-> "batch"]
RowError(i) == [statement |-> "row", row |-> i]
NoError == [statement |-> "none"]

\* log_error_to_file: one line per call
LogLine(table, row_data, error) == [table |-> table, error |-> error, data |-> row_data]

\* the target tables insert_chunk may find
InsTargets ==
    {<<>>, <<[id |-> SqlParam(Value("Integer", 1)), dob |-> SqlNull]>>}

InsInit ==
    /\ ic_driver \in Drivers
    /\ ic_zero_date \in (IF ic_driver = "mysql" THEN BOOLEAN ELSE {FALSE})
    /\ ic_dry_run \in BOOLEAN
    /\ ic_halt \in BOOLEAN
    /\ ic_chunk \in InsChunks
    /\ ic_fault \in BOOLEAN
    /\ ic_table0 \in InsTargets
    /\ ic_table = ic_table0
    /\ ic_landed = <<>>
    /\ ic_log = <<>>
    /\ ic_pc = "call"
    /\ ic_i = 0
    /\ ic_err = NoError
    /\ ic_execs = 0
    /\ ic_result = NoResult

InsIdle ==
    /\ ic_driver = "mysql"
    /\ ic_zero_date = FALSE
    /\ ic_dry_run = FALSE
    /\ ic_halt = FALSE
    /\ ic_chunk = <<>>
    /\ ic_fault = FALSE
    /\ ic_table0 = <<>>
    /\ ic_table = <<>>
    /\ ic_landed = <<>>
    /\ ic_log = <<>>
    /\ ic_pc = "idle"
    /\ ic_i = 0
    /\ ic_err = NoError
    /\ ic_execs = 0
    /\ ic_result = NoResult


insArgs == <<ic_driver, ic_zero_date, ic_dry_run, ic_halt, ic_chunk, ic_fault, ic_table0>>

\* chunk.is_empty(): Ok(()) at once
InsEmpty ==
    /\ ic_pc = "call"
    /\ ic_chunk = <<>>
    /\ ic_result' = InsOk
    /\ ic_pc' = "done"
    /\ UNCHANGED <<insArgs, ic_table, ic_landed, ic_log, ic_i, ic_err, ic_execs, notIns>>

\* dry_run: the statement is printed
InsDryRun ==
    /\ ic_pc = "call"
    /\ ic_chunk # <<>>
    /\ ic_dry_run
    /\ ic_result' = InsOk
    /\ ic_pc' = "done"
    /\ UNCHANGED <<insArgs, ic_table, ic_landed, ic_log, ic_i, ic_err, ic_execs, notIns>>

BatchRows == [j \in DOMAIN ic_chunk |-> BoundRow(ic_driver, ic_zero_date, ic_chunk[j])]
BatchFails == ic_fault \/ BatchViolates(ic_table, BatchRows)

\* query.execute(..) of the multi-row INSERT succeeds
InsBatchOk ==
    /\ ic_pc = "call"
    /\ ic_chunk # <<>>
    /\ ~ic_dry_run
    /\ ~BatchFails
    /\ ic_table' = ic_table \o BatchRows
    /\ ic_landed' = [j \in DOMAIN ic_chunk |-> j]
    /\ ic_execs' = ic_execs + 1
    /\ ic_result' = InsOk
    /\ ic_pc' = "done"
    /\ UNCHANGED <<insArgs, ic_log, ic_i, ic_err, notIns>>

\* the PostgreSQL driver returns the batch error before the retry when
\* halt_on_error is set; the MySQL driver retries first
ReturnsBeforeRetry(driver, halt_on_error) == driver = "postgres" /\ halt_on_error

\* query.execute(..) of the multi-row INSERT fails
InsBatchErr ==
    /\ ic_pc = "call"
    /\ ic_chunk # <<>>
    /\ ~ic_dry_run
    /\ BatchFails
    /\ ic_err' = BatchError
    /\ ic_execs' = ic_execs + 1
    /\ IF ReturnsBeforeRetry(ic_driver, ic_halt)
       THEN /\ ic_result' = InsErr(BatchError)
            /\ ic_pc' = "done"
            /\ ic_i' = ic_i
       ELSE /\ ic_result' = ic_result
            /\ ic_pc' = "retry"
            /\ ic_i' = 1
    /\ UNCHANGED <<insArgs, ic_table, ic_landed, ic_log, notIns>>

\* one row of the retry loop, inserted
InsRetryRowOk ==
    /\ ic_pc = "retry"
    /\ ic_i <= Len(ic_chunk)
    /\ LET stored == RetryRow(ic_driver, ic_zero_date, ic_chunk[ic_i])
       IN  /\ ~Violates(ic_table, stored)
           /\ ic_table' = Append(ic_table, stored)
    /\ ic_landed' = Append(ic_landed, ic_i)
    /\ ic_execs' = ic_execs + 1
    /\ ic_i' = ic_i + 1
    /\ UNCHANGED <<insArgs, ic_log, ic_pc, ic_err, ic_result, notIns>>

\* a plausible slip: the loop left at the first refused row
RetryStopsAfterError(i, n) == n + 1

\* the loop goes on with the next row after a refused one
RetryNextAfterError(i, n) == i + 1

\* one row of the retry loop, refused: logged and skipped
InsRetryRowErr ==
    /\ ic_pc = "retry"
    /\ ic_i <= Len(ic_chunk)
    /\ Violates(ic_table, RetryRow(ic_driver, ic_zero_date, ic_chunk[ic_i]))
    /\ ic_log' = Append(ic_log, LogLine(InsTable, ic_chunk[ic_i], RowError(ic_i)))
    /\ ic_execs' = ic_execs + 1
    /\ ic_i' = RetryNextAfterError(ic_i, Len(ic_chunk))
    /\ UNCHANGED <<insArgs, ic_table, ic_landed, ic_pc, ic_err, ic_result, notIns>>

\* a plausible slip: the error is returned whatever halt_on_error is
ResultAfterRetryAlwaysErr(halt_on_error, e) == InsErr(e)

\* after the loop: `if halt_on_error { return Err(e.into()); }`, else Ok(())
ResultAfterRetry(halt_on_error, e) == IF halt_on_error THEN InsErr(e) ELSE InsOk

InsRetryEnd ==
    /\ ic_pc = "retry"
    /\ ic_i > Len(ic_chunk)
    /\ ic_result' = ResultAfterRetry(ic_halt, ic_err)
    /\ ic_pc' = "done"
    /\ UNCHANGED <<insArgs, ic_table, ic_landed, ic_log, ic_i, ic_err, ic_execs, notIns>>

InsNext ==
    \/ InsEmpty
    \/ InsDryRun
    \/ InsBatchOk
    \/ InsBatchErr
    \/ InsRetryRowOk
    \/ InsRetryRowErr
    \/ InsRetryEnd

----------------------------------------------------------------------------
(* Command orchestrator: business.rs handle_command, drivers/mod.rs
   create_driver *)

\* connection URLs by their scheme; "-" where the command line has none
UrlSchemes == {"mysql://", "postgres://", "postgresql://", "sqlite://"}
NoUrl == "-"

\* create_driver: the driver the prefix of the URL selects
DriverOfUrl(url) ==
    IF url = "mysql://" THEN "mysql"
    ELSE IF url \in {"postgres://", "postgresql://"} THEN "postgres"
    ELSE "unsupported"

CmdOk == [ok |-> TRUE]
CmdErr(kind) == [ok |-> FALSE, err |-> kind]
CmdPending == [pending |-> TRUE]

\* what a command does to a database
IoEvent(db, op) == [db |-> db, op |-> op]

\* a database as far as the commands look at it: its tables and row count
Database(tables, rows) == [tables |-> tables, rows |-> rows]
SourceDatabases == {Database({"users"}, 1), Database({"users", "orders"}, 2)}
TargetDatabases == {Database({}, 0), Database({"legacy_audit"}, 1),
                    Database({"users", "legacy_audit"}, 1)}

\* a plausible slip: the emptiness check answering yes
DbIsEmptyAlways(db) == TRUE

\* db_is_empty: no table in the schema of the connection
DbIsEmpty(db) == db.tables = {}

\* a plausible slip: dry_run not looked at
ExecutesNotLookingAtDryRun(dry_run) == TRUE

\* `if !dry_run` of diff_and_apply_schema, `else` of the Replicate arm
Executes(dry_run) == ~dry_run

\* the tables of the target after the statements of the diff ran
SchemaApplied(db, desired, destructive) ==
    Database(IF destructive THEN desired ELSE db.tables \cup desired, db.rows)

CmdInputs ==
    {[cmd |-> "Extract", source |-> s, target |-> NoUrl, file |-> FALSE] :
        s \in UrlSchemes}
    \cup {[cmd |-> "Migrate", source |-> s, target |-> t, file |-> FALSE] :
        s \in UrlSchemes, t \in UrlSchemes}
    \cup {[cmd |-> "Migrate", source |-> NoUrl, target |-> t, file |-> TRUE] :
        t \in UrlSchemes}
    \cup {[cmd |-> "Replicate", source |-> s, target |-> t, file |-> FALSE] :
        s \in UrlSchemes, t \in UrlSchemes}

CmdInit ==
    /\ c_in \in CmdInputs
    /\ c_dry_run \in (IF c_in.cmd = "Extract" THEN {FALSE} ELSE BOOLEAN)
    /\ c_destructive \in (IF c_in.cmd = "Migrate" THEN BOOLEAN ELSE {FALSE})
    /\ c_cycle \in BOOLEAN
    /\ c_source_db \in SourceDatabases
    /\ c_target0 \in TargetDatabases
    /\ c_target_db = c_target0
    /\ c_schema = {}
    /\ c_io = <<>>
    /\ c_pc = "start"
    /\ c_result = CmdPending

CmdIdle ==
    /\ c_in = [cmd |-> "none"]
    /\ c_dry_run = FALSE
    /\ c_destructive = FALSE
    /\ c_cycle = FALSE
    /\ c_source_db = Database({}, 0)
    /\ c_target0 = Database({}, 0)
    /\ c_target_db = Database({}, 0)
    /\ c_schema = {}
    /\ c_io = <<>>
    /\ c_pc = "idle"
    /\ c_result = CmdPending

cmdArgs == <<c_in, c_dry_run, c_destructive, c_cycle, c_source_db, c_target0>>

CmdReturn(result) ==
    /\ c_result' = result
    /\ c_pc' = "done"

\* load_config, then the first step of the arm
CmdLoadConfig ==
    /\ c_pc = "start"
    /\ c_pc' = CASE c_in.cmd = "Extract" -> "source_driver"
                 [] c_in.cmd = "Migrate" -> IF c_in.file THEN "schema_file" ELSE "source_driver"
                 [] c_in.cmd = "Replicate" -> "target_driver"
    /\ UNCHANGED <<cmdArgs, c_target_db, c_schema, c_io, c_result, notCmd>>

\* Migrate with --schema: the schema is read from the file
CmdReadSchemaFile ==
    /\ c_pc = "schema_file"
    /\ c_schema' = c_source_db.tables
    /\ c_pc' = "sort"
    /\ UNCHANGED <<cmdArgs, c_target_db, c_io, c_result, notCmd>>

CmdSide == IF c_pc = "source_driver" THEN "source" ELSE "target"
CmdUrl == IF c_pc = "source_driver" THEN c_in.source ELSE c_in.target

\* create_driver: the URL has none of the three prefixes
CmdCreateDriverUnsupported ==
    /\ c_pc \in {"source_driver", "target_driver"}
    /\ DriverOfUrl(CmdUrl) = "unsupported"
    /\ CmdReturn(CmdErr("unsupported protocol"))
    /\ UNCHANGED <<cmdArgs, c_target_db, c_schema, c_io, notCmd>>

\* create_driver: the pool connects
CmdCreateDriverOk ==
    /\ c_pc \in {"source_driver", "target_driver"}
    /\ DriverOfUrl(CmdUrl) # "unsupported"
    /\ c_io' = Append(c_io, IoEvent(CmdSide, "connect"))
    /\ c_pc' = IF c_pc = "source_driver" THEN "fetch_schema"
               ELSE IF c_in.cmd = "Replicate" THEN "db_is_empty"
               ELSE "schema"
    /\ UNCHANGED <<cmdArgs, c_target_db, c_schema, c_result, notCmd>>

\* create_driver: the connection fails
CmdCreateDriverErr ==
    /\ c_pc \in {"source_driver", "target_driver"}
    /\ DriverOfUrl(CmdUrl) # "unsupported"
    /\ c_io' = Append(c_io, IoEvent(CmdSide, "connect"))
    /\ CmdReturn(CmdErr("connect"))
    /\ UNCHANGED <<cmdArgs, c_target_db, c_schema, notCmd>>

\* Replicate: db_is_empty of the target, and the refusal
CmdDbIsEmpty ==
    /\ c_pc = "db_is_empty"
    /\ c_io' = Append(c_io, IoEvent("target", "read"))
    /\ IF DbIsEmpty(c_target_db)
       THEN /\ c_pc' = "source_driver"
            /\ c_result' = c_result
       ELSE CmdReturn(CmdErr("target not empty"))
    /\ UNCHANGED <<cmdArgs, c_target_db, c_schema, notCmd>>

\* fetch_schema of the source
CmdFetchSchema ==
    /\ c_pc = "fetch_schema"
    /\ c_io' = Append(c_io, IoEvent("source", "read"))
    /\ c_schema' = c_source_db.tables
    /\ c_pc' = IF c_in.cmd = "Extract" THEN "write_file" ELSE "sort"
    /\ UNCHANGED <<cmdArgs, c_target_db, c_result, notCmd>>

\* Extract: the snapshot is written
CmdWriteFile ==
    /\ c_pc = "write_file"
    /\ CmdReturn(CmdOk)
    /\ UNCHANGED <<cmdArgs, c_target_db, c_schema, c_io, notCmd>>

\* sort_tables_by_dependencies
CmdSort ==
    /\ c_pc = "sort"
    /\ IF c_cycle
       THEN CmdReturn(CmdErr("circular dependency"))
       ELSE /\ c_pc' = IF c_in.cmd = "Migrate" THEN "target_driver" ELSE "schema"
            /\ c_result' = c_result
    /\ UNCHANGED <<cmdArgs, c_target_db, c_schema, c_io, notCmd>>

\* the schema diff of the target: introspection, and the statements when
\* they are executed
CmdSchema ==
    /\ c_pc = "schema"
    /\ IF Executes(c_dry_run)
       THEN /\ c_io' = c_io \o <<IoEvent("target", "read"), IoEvent("target", "write")>>
            /\ c_target_db' = SchemaApplied(c_target_db, c_schema,
                                            c_in.cmd = "Replicate" \/ c_destructive)
       ELSE /\ c_io' = Append(c_io, IoEvent("target", "read"))
            /\ c_target_db' = c_target_db
    /\ IF c_in.cmd = "Replicate" /\ Executes(c_dry_run)
       THEN /\ c_pc' = "data"
            /\ c_result' = c_result
       ELSE CmdReturn(CmdOk)
    /\ UNCHANGED <<cmdArgs, c_schema, notCmd>>

\* Replicate: migrate_data streams every table into the target
CmdMigrateData ==
    /\ c_pc = "data"
    /\ c_io' = c_io \o <<IoEvent("source", "read"), IoEvent("target", "write")>>
    /\ c_target_db' = Database(c_target_db.tables, c_target_db.rows + c_source_db.rows)
    /\ CmdReturn(CmdOk)
    /\ UNCHANGED <<cmdArgs, c_schema, notCmd>>

CmdNext ==
    \/ CmdLoadConfig
    \/ CmdReadSchemaFile
    \/ CmdCreateDriverUnsupported
    \/ CmdCreateDriverOk
    \/ CmdCreateDriverErr
    \/ CmdDbIsEmpty
    \/ CmdFetchSchema
    \/ CmdWriteFile
    \/ CmdSort
    \/ CmdSchema
    \/ CmdMigrateData

----------------------------------------------------------------------------
(* Row decoding: map_row_to_universal_values of both drivers, and the rows
   of a stream on their way to insert_chunk (ops.rs replicate_data) *)

MaxStreamRows == 3

\* the type names the match of each decoder has an arm for
MyDecoderTypes ==
    {"DATETIME", "TIMESTAMP", "DATE", "TIME", "YEAR", "TINYINT(1)", "BOOLEAN",
     "BOOL", "TINYINT", "SMALLINT", "INT", "INTEGER", "MEDIUMINT", "BIGINT",
     "TINYINT UNSIGNED", "SMALLINT UNSIGNED", "INT UNSIGNED", "BIGINT UNSIGNED",
     "JSON", "DOUBLE", "FLOAT", "DECIMAL", "BLOB", "VARBINARY", "BINARY", "BIT",
     "CHAR", "VARCHAR", "TINYTEXT", "TEXT", "MEDIUMTEXT", "LONGTEXT", "ENUM",
     "SET"}
PgDecoderTypes ==
    {"INT2", "SMALLINT", "SMALLSERIAL", "INT4", "INTEGER", "SERIAL", "INT8",
     "BIGINT", "BIGSERIAL", "FLOAT4", "REAL", "FLOAT8", "DOUBLE PRECISION",
     "TEXT", "VARCHAR", "CHAR", "BPCHAR", "NAME", "BYTEA", "BOOL", "BOOLEAN",
     "DATE", "TIME", "TIMETZ", "TIMESTAMP", "TIMESTAMPTZ", "NUMERIC", "DECIMAL",
     "JSON", "JSONB", "UUID", "INET", "CIDR", "INT2[]", "SMALLINT[]", "INT4[]",
     "INTEGER[]", "INT8[]", "BIGINT[]", "TEXT[]", "VARCHAR[]", "CHAR[]",
     "BPCHAR[]", "NAME[]", "BOOL[]", "BOOLEAN[]", "FLOAT4[]", "REAL[]",
     "FLOAT8[]", "DOUBLE PRECISION[]"}
DecoderTypes(driver) == IF driver = "mysql" THEN MyDecoderTypes ELSE PgDecoderTypes

\* a cell of a result row: the column, its engine-native type and the raw
\* value, SQL NULL or a value of the type
RawNull == "NULL"
RawCell(name, type_name, raw) == [name |-> name, type_name |-> type_name, raw |-> raw]

DecodeOk(val) == [ok |-> TRUE, val |-> val]
UnsupportedType(column, type_info) ==
    [ok |-> FALSE, err |-> "UnsupportedType", column |-> column, type_info |-> type_info]

\* the value an arm of the match decodes the raw value to
DecodedValue(type_name, raw) ==
    IF type_name \in {"INT", "INT4"} THEN Value("Integer", IF raw = "1" THEN 1 ELSE 0)
    ELSE Opaque(type_name, "decoded")

\* a plausible slip: every value of a column without decoder let through
MapCellLenient(driver, cell) ==
    IF cell.raw = RawNull \/ cell.type_name \notin DecoderTypes(driver)
    THEN DecodeOk(Null)
    ELSE DecodeOk(DecodedValue(cell.type_name, cell.raw))

\* one column of map_row_to_universal_values: the NULL check comes first,
\* then the match on the type name with its catch-all arm
MapCell(driver, cell) ==
    IF cell.raw = RawNull THEN DecodeOk(Null)
    ELSE IF cell.type_name \in DecoderTypes(driver)
         THEN DecodeOk(DecodedValue(cell.type_name, cell.raw))
         ELSE UnsupportedType(cell.name, cell.type_name)

\* map_row_to_universal_values: the values of all columns, or the error of
\* the first column that has one
MapRowToUniversalValues(driver, row) ==
    LET results == [i \in DOMAIN row |-> MapCell(driver, row[i])]
        failed == {i \in DOMAIN row : ~results[i].ok}
    IN  IF failed = {}
        THEN [ok |-> TRUE,
              row |-> [i \in DOMAIN row |-> [name |-> row[i].name, val |-> results[i].val]]]
        ELSE results[CHOOSE i \in failed : \A j \in failed : i <= j]

\* the tables streamed: an integer key and a second column that has a
\* decoder or has none
RowSecondTypes(driver) ==
    IF driver = "mysql" THEN {"VARCHAR", "GEOMETRY"} ELSE {"TEXT", "POINT"}
RowKeyType(driver) == IF driver = "mysql" THEN "INT" ELSE "INT4"
RawRow(driver, second_type, second_raw) ==
    <<RawCell("id", RowKeyType(driver), "1"), RawCell("shape", second_type, second_raw)>>
RawStreams(driver, second_type) ==
    UNION {[1..n -> {RawRow(driver, second_type, raw) : raw \in {RawNull, "value"}}] :
              n \in 0..MaxStreamRows}

RowOk == [ok |-> TRUE]

RowInit ==
    /\ rw_driver \in Drivers
    /\ \E t \in RowSecondTypes(rw_driver) : rw_stream \in RawStreams(rw_driver, t)
    /\ rw_i = 0
    /\ rw_item = NoResult
    /\ rw_chunk = <<>>
    /\ rw_inserted = <<>>
    /\ rw_pc = "next"
    /\ rw_result = NoResult

RowIdle ==
    /\ rw_driver = "mysql"
    /\ rw_stream = <<>>
    /\ rw_i = 0
    /\ rw_item = NoResult
    /\ rw_chunk = <<>>
    /\ rw_inserted = <<>>
    /\ rw_pc = "idle"
    /\ rw_result = NoResult

\* the stream yields the next row as the decoder maps it: a row, or the
\* error, after which the stream is over
RowStreamYield ==
    /\ rw_pc = "next"
    /\ rw_i < Len(rw_stream)
    /\ rw_i' = rw_i + 1
    /\ rw_item' = MapRowToUniversalValues(rw_driver, rw_stream[rw_i + 1])
    /\ rw_pc' = "item"
    /\ UNCHANGED <<rw_driver, rw_stream, rw_chunk, rw_inserted, rw_result, notRow>>

\* `let row = row_result?; chunk.push(row)` with a row
RowPush ==
    /\ rw_pc = "item"
    /\ rw_item.ok
    /\ rw_chunk' = Append(rw_chunk, [source |-> rw_i, row |-> rw_item.row])
    /\ rw_pc' = "next"
    /\ UNCHANGED <<rw_driver, rw_stream, rw_i, rw_item, rw_inserted, rw_result, notRow>>

\* `let row = row_result?` with an error: replicate_data returns it
RowStreamError ==
    /\ rw_pc = "item"
    /\ ~rw_item.ok
    /\ rw_result' = rw_item
    /\ rw_pc' = "done"
    /\ UNCHANGED <<rw_driver, rw_stream, rw_i, rw_item, rw_chunk, rw_inserted, notRow>>

\* the stream is over: the rows collected go to insert_chunk
RowStreamEnd ==
    /\ rw_pc = "next"
    /\ rw_i = Len(rw_stream)
    /\ rw_inserted' = rw_inserted \o rw_chunk
    /\ rw_chunk' = <<>>
    /\ rw_result' = RowOk
    /\ rw_pc' = "done"
    /\ UNCHANGED <<rw_driver, rw_stream, rw_i, rw_item, notRow>>

RowNext ==
    \/ RowStreamYield
    \/ RowPush
    \/ RowStreamError
    \/ RowStreamEnd

----------------------------------------------------------------------------
(* alter_table_migration_sql of both drivers on one table *)

AltTable == "users"
AltColumn == "val"
AltIndex == "idx_val"

\* the desired column: any column of a source of either engine or of a
\* schema file
AltDesiredColumns ==
    {ColumnExtra(Column(AltColumn, "int", None, n, d, FALSE), a, None) :
        n \in BOOLEAN, d \in {None, Some("1"), Some("2")}, a \in BOOLEAN}
    \cup {Column(AltColumn, "float", None, n, d, FALSE) :
            n \in BOOLEAN, d \in {None, Some("1"), Some("1.0"), Some("2")}}
    \cup {Column(AltColumn, "double", None, n, d, FALSE) :
            n \in BOOLEAN, d \in {None, Some("1"), Some("1.0")}}
    \cup {Column(AltColumn, "varchar", Some(l), n, d, FALSE) :
            l \in {8, 16}, n \in BOOLEAN, d \in {None, Some("1"), Some("1.0")}}
    \cup {ColumnExtra(Column(AltColumn, "timestamp", None, n, d, FALSE), FALSE, u) :
            n \in BOOLEAN, d \in {None, Some("CURRENT_TIMESTAMP")},
            u \in {None, Some("CURRENT_TIMESTAMP")}}

\* the column as fetch_columns reports it: the PostgreSQL driver sets
\* on_update to None, and auto_increment only for a nextval default
\* (postgres.rs:138-141)
AltTargetColumns(driver) ==
    IF driver = "mysql" THEN AltDesiredColumns
    ELSE {c \in AltDesiredColumns : ~c.auto_increment /\ c.on_update = None}

AltIndexColumns == {<<"val">>, <<"val", "id">>, <<"id", "val">>}

\* column_prefixes of an index on these columns: absent, present without a
\* prefix, present with a prefix on the first column
AltPrefixes(columns) ==
    {None,
     Some([i \in DOMAIN columns |-> None]),
     Some([i \in DOMAIN columns |-> IF i = 1 THEN Some(4) ELSE None])}

AltDesiredIndices ==
    UNION {{Index(AltIndex, columns, u, t, p) :
                u \in BOOLEAN,
                t \in {None, Some("BTREE"), Some("btree"), Some("FULLTEXT")},
                p \in AltPrefixes(columns)} :
           columns \in AltIndexColumns}

\* the index as fetch_indices reports it: MySQL always names the type
\* (mysql.rs:329-331), PostgreSQL never does and has no prefixes
\* (postgres.rs:186-187)
AltTargetIndices(driver) ==
    IF driver = "mysql"
    THEN {ix \in AltDesiredIndices : ix.index_type \in {Some("BTREE"), Some("FULLTEXT")}}
    ELSE {ix \in AltDesiredIndices : ix.index_type = None /\ ix.column_prefixes = None}

AltKey == Column("id", "int", None, FALSE, None, TRUE)

\* the desired table and the table of the same name in the target: the two
\* differ in the column val, or in the index idx_val
AltCases(driver) ==
    {[source |-> SchemaTable(AltTable, <<AltKey, s>>, <<>>),
      target |-> SchemaTable(AltTable, <<AltKey, t>>, <<>>)] :
        s \in AltDesiredColumns, t \in AltTargetColumns(driver)}
    \cup
    {[source |-> SchemaTable(AltTable, <<AltKey, Column(AltColumn, "int", None, TRUE, None, FALSE)>>, <<s>>),
      target |-> SchemaTable(AltTable, <<AltKey, Column(AltColumn, "int", None, TRUE, None, FALSE)>>, <<t>>)] :
        s \in AltDesiredIndices, t \in AltTargetIndices(driver)}

AltInit ==
    /\ al_driver \in Drivers
    /\ al_destructive \in BOOLEAN
    /\ \E case \in AltCases(al_driver) :
          /\ al_source = case.source
          /\ al_target = case.target
    /\ al_stmts = <<>>
    /\ al_pc = "call"

AltIdle ==
    /\ al_driver = "mysql"
    /\ al_destructive = FALSE
    /\ al_source = <<>>
    /\ al_target = <<>>
    /\ al_stmts = <<>>
    /\ al_pc = "idle"

\* alter_table_migration_sql(source_table, target_table, config, destructive)
AltCall ==
    /\ al_pc = "call"
    /\ al_stmts' \in AlterTableMigration(al_driver, al_source, al_target, al_destructive)
    /\ al_pc' = "done"
    /\ UNCHANGED <<al_driver, al_destructive, al_source, al_target, notAlt>>

AltNext == AltCall

----------------------------------------------------------------------------
(* Single functions of the drivers, each called once *)

DrvCall(fn, driver, args) == [fn |-> fn, driver |-> driver, args |-> args]

\* --- create_table_migration_sql

CtColumnNames == {"id", "tenant", "note"}

\* the column lists of a desired table: one to three columns in any order,
\* any of them marked as part of the primary key
CtColumnLists ==
    UNION {UNION {{[i \in DOMAIN o |->
                      Column(o[i], "int", None, ~(o[i] \in pk), None, o[i] \in pk)] :
                   pk \in SUBSET S} :
                  o \in Orderings(S)} :
           S \in (SUBSET CtColumnNames) \ {{}}}

\* the index lists of a desired table on its first column
CtIndexLists(columns) ==
    LET a == Index("idx_a", <<columns[1].name>>, FALSE, None, None)
        b == Index("idx_b", <<columns[1].name>>, TRUE, None, None)
    IN  {<<>>, <<a>>, <<a, b>>, <<b, a>>}

CtTables ==
    UNION {{SchemaTable("users", columns, indices) : indices \in CtIndexLists(columns)} :
           columns \in CtColumnLists}

CtCalls ==
    {DrvCall("create_table_migration_sql", driver, [table |-> t]) :
        driver \in Drivers, t \in CtTables}

\* create_table_migration_sql(table, config)
DrvCreateTableMigration ==
    /\ dv_pc = "call"
    /\ dv_call.fn = "create_table_migration_sql"
    /\ dv_result' = CreateTableMigration(dv_call.driver, dv_call.args.table)
    /\ dv_pc' = "done"
    /\ UNCHANGED <<dv_call, dv_i, dv_map, notDrv>>

\* --- fetch_indices

\* most rows SHOW INDEX or the pg_index query return for the table
MaxIndexRows == 3

\* Vec::resize(n, fill)
Resize(s, n, fill) == [i \in 1..n |-> IF i <= Len(s) THEN s[i] ELSE fill]

\* the rows of SHOW INDEX FROM `users`, in any order the server sends them
MyIndexRowPool ==
    [Key_name : {"PRIMARY", "idx_a"}, Column_name : {"id", "note"},
     Index_type : {"BTREE"}, Seq_in_index : {1, 2}, Sub_part : {None, Some(4)}]

\* Non_unique of a row: 0 for the primary key, 1 for the index idx_a
NonUnique(row) == IF row.Key_name = "PRIMARY" THEN 0 ELSE 1

\* the rows of the pg_index query for the table users
PgIndexRowPool ==
    {[index_name |-> n, column_name |-> c, is_unique |-> (n = "users_pkey"),
      is_primary |-> (n = "users_pkey")] :
        n \in {"idx_a", "users_pkey"}, c \in {"id", "note"}}

\* ORDER BY t.relname, i.relname
PgOrderedByIndexName(rows) ==
    \A i, j \in DOMAIN rows :
        i < j => ~(rows[i].index_name = "users_pkey" /\ rows[j].index_name = "idx_a")

IndexRowLists(driver) ==
    IF driver = "mysql"
    THEN UNION {[1..n -> MyIndexRowPool] : n \in 0..MaxIndexRows}
    ELSE {rows \in UNION {[1..n -> PgIndexRowPool] : n \in 0..MaxIndexRows} :
            PgOrderedByIndexName(rows)}

FiCalls ==
    UNION {{DrvCall("fetch_indices", driver, [rows |-> rows]) :
                rows \in IndexRowLists(driver)} :
           driver \in Drivers}

\* position of the entry of the name in the map, 0 when there is none
EntryAt(map, name) ==
    IF \E k \in DOMAIN map : map[k].name = name
    THEN CHOOSE k \in DOMAIN map : map[k].name = name
    ELSE 0

\* the prefix list left as it is, whatever the number of columns
ResizePrefixesNever(prefixes, n) == prefixes

\* mysql.rs:342-344: the prefix list follows the column list
ResizePrefixes(prefixes, n) ==
    IF Len(prefixes) < n THEN Resize(prefixes, n, None) ELSE prefixes

\* the body of the loop of fetch_indices (mysql.rs:287-347) for one row
MyFoldIndexRow(map, row) ==
    IF row.Key_name = "PRIMARY" THEN map
    ELSE
      LET seq_index == IF row.Seq_in_index > 0 THEN row.Seq_in_index - 1 ELSE 0
          k == EntryAt(map, row.Key_name)
          entry == IF k = 0
                   THEN Index(row.Key_name, <<>>, NonUnique(row) = 0, None, None)
                   ELSE map[k]
          index_type == IF entry.index_type = None /\ row.Index_type # ""
                        THEN Some(row.Index_type) ELSE entry.index_type
          resized == IF Len(entry.columns) <= seq_index
                     THEN Resize(entry.columns, seq_index + 1, "")
                     ELSE entry.columns
          columns == [resized EXCEPT ![seq_index + 1] = row.Column_name]
          column_prefixes ==
              IF row.Sub_part # None \/ entry.column_prefixes # None
              THEN LET prefixes ==
                           ResizePrefixes(
                               IF entry.column_prefixes = None
                               THEN [i \in DOMAIN columns |-> None]
                               ELSE entry.column_prefixes.v,
                               Len(columns))
                   IN  Some([i \in DOMAIN prefixes |->
                               IF i = seq_index + 1 THEN row.Sub_part ELSE prefixes[i]])
              ELSE None
          folded == Index(entry.name, columns, entry.is_unique, index_type, column_prefixes)
      IN  IF k = 0 THEN Append(map, folded) ELSE [map EXCEPT ![k] = folded]

\* the body of the loop of fetch_indices (postgres.rs:177-190) for one row
PgFoldIndexRow(map, row) ==
    LET k == EntryAt(map, row.index_name)
        entry == IF k = 0 THEN Index(row.index_name, <<>>, row.is_unique, None, None)
                 ELSE map[k]
        folded == [entry EXCEPT !.columns = Append(@, row.column_name)]
    IN  IF k = 0 THEN Append(map, folded) ELSE [map EXCEPT ![k] = folded]

FoldIndexRow(driver, map, row) ==
    IF driver = "mysql" THEN MyFoldIndexRow(map, row) ELSE PgFoldIndexRow(map, row)

\* the Vec collected from the map: from a HashMap in any order
\* (mysql.rs:350), from an IndexMap in insertion order (postgres.rs:192)
CollectIndices(driver, map) ==
    IF driver = "mysql" THEN Perms(DOMAIN map)
    ELSE {[i \in DOMAIN map |-> i]}

\* fetch_indices: one row of the result set is folded into indices_map
DrvFetchIndicesRow ==
    /\ dv_pc = "call"
    /\ dv_call.fn = "fetch_indices"
    /\ dv_i < Len(dv_call.args.rows)
    /\ dv_i' = dv_i + 1
    /\ dv_map' = FoldIndexRow(dv_call.driver, dv_map, dv_call.args.rows[dv_i + 1])
    /\ UNCHANGED <<dv_call, dv_result, dv_pc, notDrv>>

\* fetch_indices: the map is turned into the returned Vec
DrvFetchIndicesCollect ==
    /\ dv_pc = "call"
    /\ dv_call.fn = "fetch_indices"
    /\ dv_i = Len(dv_call.args.rows)
    /\ \E o \in CollectIndices(dv_call.driver, dv_map) :
          dv_result' = [i \in DOMAIN dv_map |-> dv_map[o[i]]]
    /\ dv_pc' = "done"
    /\ UNCHANGED <<dv_call, dv_i, dv_map, notDrv>>

\* --- map_mysql_type and the lookup of fetch_columns

\* the Type column of SHOW FULL FIELDS: MySQL writes type names in lower
\* case and the literals of an enum as they were declared
MyColumnTypes ==
    {"int(11)", "int(10) unsigned", "bigint(20) unsigned", "varchar(8)",
     "enum('Y','N')", "point"}

\* a caller of map_mysql_type may pass any spelling
MyTypeSpellings == MyColumnTypes \cup {"INT(11)", "INT"}

\* str::to_lowercase on the spellings in use
ToLowercase(s) ==
    CASE s = "INT(11)" -> "int(11)"
      [] s = "INT" -> "int"
      [] s = "enum('Y','N')" -> "enum('y','n')"
      [] OTHER -> s

\* the part of the column type before the first '(' or ' ' (mysql.rs:155-158)
FirstPiece(column_type) ==
    CASE column_type = "int(11)" -> "int"
      [] column_type = "int(10) unsigned" -> "int"
      [] column_type = "bigint(20) unsigned" -> "bigint"
      [] column_type = "varchar(8)" -> "varchar"
      [] column_type = "enum('Y','N')" -> "enum"
      [] column_type = "INT(11)" -> "INT"
      [] OTHER -> column_type

\* str::contains("unsigned"), str::contains("int")
ContainsUnsigned(s) == s \in {"int(10) unsigned", "bigint(20) unsigned"}
ContainsInt(s) == s \in {"int", "bigint", "point"}

\* the on_read type lists of the configurations: none, a family, a full
\* spelling beside its family, an enum written in lower case and as declared
OnReadTypeLists ==
    {None,
     Some([k \in {"int"} |-> "integer"]),
     Some([k \in {"int(10) unsigned", "int"} |->
             IF k = "int" THEN "integer" ELSE "uint"]),
     Some([k \in {"enum('y','n')"} |-> "boolean"]),
     Some([k \in {"enum('Y','N')"} |-> "boolean"]),
     Some([k \in {"bigint"} |-> "int8"])}

MyReadConfigs ==
    [on_read : OnReadTypeLists, unsigned_int_to_bigint : BOOLEAN]

\* target_types.and_then(|t| t.get(first).or_else(|| t.get(second)))
TypeLookup(target_types, first, second) ==
    IF target_types = None THEN None
    ELSE IF first \in DOMAIN target_types.v THEN Some(target_types.v[first])
    ELSE IF second \in DOMAIN target_types.v THEN Some(target_types.v[second])
    ELSE None

UnwrapOr(option, default) == IF option = None THEN default ELSE option.v

\* the condition of the unsigned rule (mysql.rs:107-113, 171-174)
UnsignedRule(config, is_unsigned, data_type) ==
    config.unsigned_int_to_bigint /\ is_unsigned /\ ContainsInt(data_type)

\* map_mysql_type (mysql.rs:89-120)
MapMysqlType(mysql_column_type, mysql_data_type, is_unsigned, config) ==
    LET mysql_column_type_lower == ToLowercase(mysql_column_type)
        mysql_data_type_lower == ToLowercase(mysql_data_type)
        target_type == UnwrapOr(TypeLookup(config.on_read, mysql_column_type_lower,
                                           mysql_data_type_lower),
                                mysql_data_type_lower)
    IN  IF UnsignedRule(config, is_unsigned, mysql_data_type_lower) THEN "bigint"
        ELSE target_type

\* fetch_columns (mysql.rs:152-177): data type and unsigned flag of one row
MyFetchColumnType(mysql_column_type, config) ==
    LET mysql_data_type == ToLowercase(FirstPiece(mysql_column_type))
        target_data_type == UnwrapOr(TypeLookup(config.on_read, mysql_column_type,
                                                mysql_data_type),
                                     mysql_data_type)
        is_unsigned == ContainsUnsigned(ToLowercase(mysql_column_type))
        rule == UnsignedRule(config, is_unsigned, mysql_data_type)
    IN  [data_type |-> IF rule THEN "bigint" ELSE target_data_type,
         is_unsigned |-> is_unsigned /\ ~rule]

MapCalls ==
    {DrvCall("map_mysql_type", "mysql",
             [mysql_column_type |-> t, mysql_data_type |-> FirstPiece(t),
              is_unsigned |-> ContainsUnsigned(ToLowercase(t)), config |-> c]) :
        t \in MyTypeSpellings, c \in MyReadConfigs}
    \cup
    {DrvCall("fetch_columns", "mysql", [Type |-> t, config |-> c]) :
        t \in MyColumnTypes, c \in MyReadConfigs}

\* map_mysql_type(mysql_column_type, mysql_data_type, is_unsigned, config)
DrvMapMysqlType ==
    /\ dv_pc = "call"
    /\ dv_call.fn = "map_mysql_type"
    /\ dv_result' = MapMysqlType(dv_call.args.mysql_column_type,
                                 dv_call.args.mysql_data_type,
                                 dv_call.args.is_unsigned, dv_call.args.config)
    /\ dv_pc' = "done"
    /\ UNCHANGED <<dv_call, dv_i, dv_map, notDrv>>

\* fetch_columns on a table of one column
DrvFetchColumns ==
    /\ dv_pc = "call"
    /\ dv_call.fn = "fetch_columns"
    /\ dv_result' = MyFetchColumnType(dv_call.args.Type, dv_call.args.config)
    /\ dv_pc' = "done"
    /\ UNCHANGED <<dv_call, dv_i, dv_map, notDrv>>

\* --- field_migration_sql of the MySQL driver

FsColumns ==
    {Column("note", t, IF t = "varchar" THEN Some(8) ELSE None, n, d, FALSE) :
        t \in {"int", "varchar", "text", "mediumtext", "blob", "json", "timestamp"},
        n \in BOOLEAN,
        d \in {None, Some("1"), Some("CURRENT_TIMESTAMP")}}

FsCalls == {DrvCall("field_migration_sql", "mysql", [field |-> f]) : f \in FsColumns}

\* field_migration_sql(field, config)
DrvFieldMigrationSql ==
    /\ dv_pc = "call"
    /\ dv_call.fn = "field_migration_sql"
    /\ dv_result' = MyFieldMigrationSql(dv_call.args.field)
    /\ dv_pc' = "done"
    /\ UNCHANGED <<dv_call, dv_i, dv_map, notDrv>>

DrvCalls == CtCalls \cup FiCalls \cup MapCalls \cup FsCalls

DrvInit ==
    /\ dv_call \in DrvCalls
    /\ dv_i = 0
    /\ dv_map = <<>>
    /\ dv_result = <<>>
    /\ dv_pc = "call"

DrvIdle ==
    /\ dv_call = <<>>
    /\ dv_i = 0
    /\ dv_map = <<>>
    /\ dv_result = <<>>
    /\ dv_pc = "idle"

DrvNext ==
    \/ DrvCreateTableMigration
    \/ DrvFetchIndicesRow
    \/ DrvFetchIndicesCollect
    \/ DrvMapMysqlType
    \/ DrvFetchColumns
    \/ DrvFieldMigrationSql

\* the added subsystems at rest
ExtIdle == InsIdle /\ CmdIdle /\ RowIdle /\ AltIdle /\ DrvIdle

----------------------------------------------------------------------------
(* Claims about the sorter *)

TableNames(tables) == {tables[i].name : i \in DOMAIN tables}

\* the foreign-key graph among the tables of the schema: <<t, r>> when table
\* t has a foreign key that references table r and r is in the schema
FkGraph(tables) ==
    UNION {{<<tables[i].name, r>> : r \in tables[i].foreign_keys \cap TableNames(tables)} :
           i \in DOMAIN tables}

RECURSIVE TransitiveClosure(_)
TransitiveClosure(R) ==
    LET step == R \cup UNION {{<<e[1], f[2]>> : f \in {g \in R : g[1] = e[2]}} : e \in R}
    IN  IF step = R THEN R ELSE TransitiveClosure(step)

HasCycle(tables) == \E e \in TransitiveClosure(FkGraph(tables)) : e[1] = e[2]

DistinctNames(tables) ==
    \A i, j \in DOMAIN tables : tables[i].name = tables[j].name => i = j

IsPermutationOf(out, in) ==
    /\ Len(out) = Len(in)
    /\ \E p \in Perms(DOMAIN in) : \A k \in DOMAIN out : out[k] = in[p[k]]

ParentsFirst(out) ==
    \A k \in DOMAIN out :
        \A r \in out[k].foreign_keys \cap TableNames(out) :
            \E j \in DOMAIN out : j < k /\ out[j].name = r

C2_CycleFailsBeforeDdl ==
    HasCycle(schema_in) =>
        /\ cmd_pc \in {"sort", "sorted", "failed"}
        /\ cmd_pc # "sort" => (~sort_result.ok /\ sort_result.err = CircularDependency)
        /\ schema_tables = schema_in
        /\ ~diff_called

C2_Witness ==
    /\ cmd_pc = "failed"
    /\ \E i \in DOMAIN schema_in : schema_in[i].name \in schema_in[i].foreign_keys
    /\ sort_result = [ok |-> FALSE, err |-> CircularDependency]

----------------------------------------------------------------------------
(* Claims about the replication pipeline *)

CallsOf(table) == SelectSeq(r_calls, LAMBDA c : c.table = table)

RECURSIVE ConcatRows(_)
ConcatRows(calls) ==
    IF calls = <<>> THEN <<>> ELSE calls[1].rows \o ConcatRows(Tail(calls))

TableIndex(table) == CHOOSE i \in DOMAIN ReplTables : ReplTables[i] = table

\* the rows of the table still in the buffer
Buffered(table) ==
    IF r_ti \in DOMAIN ReplTables /\ ReplTables[r_ti] = table THEN r_chunk ELSE <<>>

\* the stream of the table has ended and what was left has been handed over
TableWritten(table) ==
    \/ TableIndex(table) < r_ti
    \/ /\ TableIndex(table) = r_ti
       /\ r_pc \in {"insert_last", "flushed", "verify"}

\* C3: per table, the chunks passed to insert_chunk, concatenated in call
\* order and followed by what is still buffered, are exactly the rows the
\* source stream of that table has yielded, in stream order; once the table
\* is written nothing is buffered; every row of a call was read from the
\* table the call names.
C3_ChunksAreTheStream ==
    /\ \A t \in Range(ReplTables) :
          LET rows == ConcatRows(CallsOf(t)) \o Buffered(t)
          IN  /\ Len(rows) = r_total[t]
              /\ \A i \in 1..Len(rows) : rows[i] = Row(t, i)
              /\ TableWritten(t) => Buffered(t) = <<>>
    /\ \A k \in DOMAIN r_calls : r_calls[k].table \in Range(ReplTables)

C3_Witness ==
    /\ r_pc = "done"
    /\ \A t \in Range(ReplTables) : r_total[t] = CHUNK + 1
    /\ Len(r_calls) = 2 * Len(ReplTables)

CeilDiv(n, d) == (n + d - 1) \div d

\* C4: a table whose stream ended after n rows got exactly ceil(n/1000)
\* insert_chunk calls, every one but the last with exactly 1000 rows, the
\* last with the remaining 1..1000 rows; no call carries an empty chunk and
\* neither a call nor the buffer ever holds more than 1000 rows.
C4_ChunkCalls ==
    /\ Len(r_chunk) <= CHUNK
    /\ \A k \in DOMAIN r_calls : Len(r_calls[k].rows) \in 1..CHUNK
    /\ \A t \in Range(ReplTables) :
          TableWritten(t) =>
              LET calls == CallsOf(t)
              IN  /\ Len(calls) = CeilDiv(r_total[t], CHUNK)
                  /\ \A k \in DOMAIN calls : k < Len(calls) => Len(calls[k].rows) = CHUNK
                  /\ Len(calls) > 0 =>
                        Len(calls[Len(calls)].rows) = r_total[t] - CHUNK * (Len(calls) - 1)

C4_Witness ==
    /\ r_pc = "done"
    /\ r_total[ReplTables[1]] = CHUNK
    /\ r_total[ReplTables[2]] = CHUNK + 1
    /\ Len(CallsOf(ReplTables[1])) = 1
    /\ Len(CallsOf(ReplTables[2])) = 2
    /\ Len(CallsOf(ReplTables[2])[2].rows) = 1

RECURSIVE CountRows(_)
CountRows(calls) ==
    IF calls = <<>> THEN 0 ELSE Len(calls[1].rows) + CountRows(Tail(calls))

LogCount(log, kind, table) ==
    Cardinality({p \in DOMAIN log : log[p] = <<kind, table>>})

LogBefore(p) == SubSeq(r_log, 1, p - 1)

\* C5: the streams are opened in the order of schema.tables; when the stream
\* of a table is opened, every insert of the table before it has returned
\* and, when verification is enabled and the run is no dry run, its
\* verification has succeeded, and no event of the earlier table follows;
\* while an insert is outstanding no further row has been pulled.
C5_TablesOneAtATime ==
    /\ LET opens == SelectSeq(r_log, LAMBDA e : e[1] = "open")
       IN  /\ Len(opens) <= Len(ReplTables)
           /\ \A k \in DOMAIN opens : opens[k] = <<"open", ReplTables[k]>>
    /\ \A p \in DOMAIN r_log :
          r_log[p][1] = "open" /\ TableIndex(r_log[p][2]) > 1 =>
              LET prev == ReplTables[TableIndex(r_log[p][2]) - 1]
              IN  /\ LogCount(LogBefore(p), "open", prev) = 1
                  /\ LogCount(LogBefore(p), "insert", prev) =
                         LogCount(LogBefore(p), "inserted", prev)
                  /\ LogCount(r_log, "insert", prev) = LogCount(LogBefore(p), "insert", prev)
                  /\ (r_verify /\ ~r_dry_run) =>
                         /\ LogCount(LogBefore(p), "verified", prev) = 1
                         /\ LogCount(r_log, "verify", prev) = 1
                  /\ \A q \in DOMAIN r_log : q > p => r_log[q][2] # prev
    /\ \A t \in Range(ReplTables) :
          LogCount(r_log, "insert", t) > LogCount(r_log, "inserted", t) =>
              /\ LogCount(r_log, "insert", t) = LogCount(r_log, "inserted", t) + 1
              /\ r_total[t] = CountRows(CallsOf(t))

C5_Witness ==
    /\ r_pc = "done"
    /\ r_verify /\ ~r_dry_run
    /\ \A t \in Range(ReplTables) : r_total[t] > CHUNK
    /\ LogCount(r_log, "verified", ReplTables[2]) = 1

\* the step in which the stream of the current table yields an error
StreamErrorStep == r_pc = "pull" /\ r_pc' = "failed"

\* C28: when the source stream of a table yields an error, the run ends with
\* it: that step hands no row to insert_chunk and leaves the chunks inserted
\* before as they are, the rows buffered since the last full chunk are in no
\* insert_chunk call, the table has not been and is not verified, no later
\* table has been read or written, and no step follows the failure.
C28_StreamErrorEndsRun ==
    [][/\ r_pc # "failed"
       /\ StreamErrorStep =>
              /\ r_calls' = r_calls
              /\ r_log' = r_log
              /\ Len(ConcatRows(CallsOf(CurrentTable))) = r_total[CurrentTable] - Len(r_chunk)
              /\ \A i \in DOMAIN r_chunk :
                     \A k \in DOMAIN r_calls' : r_chunk[i] \notin Range(r_calls'[k].rows)
              /\ \A q \in DOMAIN r_log' :
                     /\ TableIndex(r_log'[q][2]) <= r_ti
                     /\ r_log'[q][2] = CurrentTable =>
                            r_log'[q][1] \notin {"verify", "verified", "verify_failed"}
              /\ \A k \in DOMAIN r_calls' : TableIndex(r_calls'[k].table) <= r_ti]_vars

\* the stream of the second table failed with CHUNK - 1 rows buffered, after
\* the first table was written in two chunks and verified
C28_Witness ==
    /\ r_pc = "failed"
    /\ r_ti = 2
    /\ r_verify /\ ~r_dry_run
    /\ Len(r_chunk) = CHUNK - 1
    /\ r_total[ReplTables[2]] = CHUNK - 1
    /\ CallsOf(ReplTables[2]) = <<>>
    /\ Len(CallsOf(ReplTables[1])) = 2
    /\ LogCount(r_log, "verified", ReplTables[1]) = 1
    /\ LogCount(r_log, "open", ReplTables[2]) = 1

----------------------------------------------------------------------------
(* Claims about the verifier *)

\* position i holds a row in both streams and the two rows agree, under
\* values_equal, on every column of the table
PairEqual(i) ==
    /\ i \in DOMAIN vf_source
    /\ i \in DOMAIN vf_target
    /\ vf_source[i].ok
    /\ vf_target[i].ok
    /\ \A c \in Range(VerTable.columns) :
          ValuesEqual(RowGet(vf_source[i].row, c), RowGet(vf_target[i].row, c))

OnlyRows(stream) == \A i \in DOMAIN stream : stream[i].ok

HasRowAt(stream, k) == k \in DOMAIN stream /\ stream[k].ok

EndedAt(stream, k) == k = Len(stream) + 1

\* the first column, in schema order, on which the rows at position k differ
FirstUnequalColumn(k) ==
    LET cols == VerTable.columns
        i == CHOOSE i \in DOMAIN cols :
                /\ ~ValuesEqual(RowGet(vf_source[k].row, cols[i]),
                                RowGet(vf_target[k].row, cols[i]))
                /\ \A j \in 1..(i - 1) :
                      ValuesEqual(RowGet(vf_source[k].row, cols[j]),
                                  RowGet(vf_target[k].row, cols[j]))
    IN  cols[i]

\* verify_table_data has returned and both streams had been opened (the
\* only return with nothing pulled and a database error is the failed open)
VerReturned == vf_pc = "done" /\ ~(vf_result = VerDbError /\ vf_si + vf_ti = 0)

\* C6: once both streams are open, verify_table_data returns success iff
\* the two streams yield rows only, the same number of them, and the rows
\* paired by position are equal on every column of the table under
\* values_equal. When all pairs before position k are equal and exactly
\* one stream has ended at k while the other yields a row, the result is
\* the row-count mismatch of the table; when both yield a row at k and the
\* rows are unequal, the result names the table and the first unequal
\* column, and nothing after position k has been read from either stream.
C6_VerifyTableData ==
    VerReturned =>
        /\ (vf_result = VerOk) <=>
              /\ OnlyRows(vf_source)
              /\ OnlyRows(vf_target)
              /\ Len(vf_source) = Len(vf_target)
              /\ \A i \in DOMAIN vf_source : PairEqual(i)
        /\ \A k \in 1..(MaxVerifyRows + 1) :
              (\A i \in 1..(k - 1) : PairEqual(i)) =>
                 /\ (\/ EndedAt(vf_source, k) /\ HasRowAt(vf_target, k)
                     \/ EndedAt(vf_target, k) /\ HasRowAt(vf_source, k))
                       => /\ vf_result = VerRowCountMismatch(VerTable.name)
                          /\ vf_si <= k
                          /\ vf_ti <= k
                 /\ (HasRowAt(vf_source, k) /\ HasRowAt(vf_target, k) /\ ~PairEqual(k))
                       => /\ vf_result.kind = "mismatch"
                          /\ vf_result.table = VerTable.name
                          /\ vf_result.column = FirstUnequalColumn(k)
                          /\ vf_si = k
                          /\ vf_ti = k

\* a run that failed on a first pair differing in both columns, named the
\* first of them and left the second row of either stream unread
C6_Witness ==
    /\ vf_pc = "done"
    /\ Len(vf_source) = 2
    /\ Len(vf_target) = 2
    /\ OnlyRows(vf_source)
    /\ OnlyRows(vf_target)
    /\ vf_result.kind = "mismatch"
    /\ vf_result.column = "id"
    /\ Cardinality(MismatchingColumns(VerTable.columns, vf_source[1].row,
                                      vf_target[1].row)) = 2
    /\ vf_si = 1
    /\ vf_ti = 1

----------------------------------------------------------------------------
(* Claims about the value equality *)

SameVariant(a, b) == a.tag = b.tag

\* what the rules of the claim give for a pair of values, equality of the
\* payload being identity of the payload
EqualAsStated(a, b) ==
    CASE {a, b} = {Null, ZeroDateTime} -> TRUE
      [] a.tag = "Integer" /\ b.tag = "UnsignedInteger" -> a.v >= 0 /\ a.v = b.v
      [] a.tag = "UnsignedInteger" /\ b.tag = "Integer" -> b.v >= 0 /\ a.v = b.v
      [] a.tag = "Year" /\ b.tag = "Integer" -> a.v = b.v
      [] a.tag = "Integer" /\ b.tag = "Year" -> a.v = b.v
      [] SameVariant(a, b) -> a = b
      [] OTHER -> FALSE

\* C7: values_equal(a, b) is true for Null against ZeroDateTime in either
\* order, for Integer(x) against UnsignedInteger(y) in either order exactly
\* when x >= 0 and x = y, for Year(y) against Integer(x) in either order
\* exactly when x = y; for two values of the same variant it is exact
\* equality of the payload; for every other pair of different variants it
\* is false.
C7_ValuesEqualAsStated ==
    v_pc = "done" => (v_result <=> EqualAsStated(v_left, v_right))

\* C7, the part the code satisfies: the same statement for every pair of
\* values that is not a pair of floats
C7_HoldsApartFromFloats ==
    (v_pc = "done" /\ ~(v_left.tag = "Float" /\ v_right.tag = "Float")) =>
        (v_result <=> EqualAsStated(v_left, v_right))

\* C7: the pairs of floats on which f64's == is not identity of the value
C7_FloatPairsOffIdentity ==
    (v_pc = "done" /\ v_left.tag = "Float" /\ v_right.tag = "Float"
        /\ v_result # (v_left = v_right))
    => \/ v_left.p = NaN /\ v_right.p = NaN
       \/ {v_left.p, v_right.p} = {"-0.0", "0.0"}

\* a float NaN
IsNaN(x) == x.tag = "Float" /\ x.p = NaN

NotNaN == {x \in Values : ~IsNaN(x)}

\* values_equal has been called on two values other than NaN
ComparedOffNaN == v_pc = "done" /\ v_left \in NotNaN /\ v_right \in NotNaN

\* C29: on universal values other than float NaN values_equal is an
\* equivalence relation: a value equals itself, values_equal(a, b) is
\* values_equal(b, a), and whenever values_equal(a, b) and values_equal(b, c)
\* hold, values_equal(a, c) holds.
C29_EquivalenceRelation ==
    ComparedOffNaN =>
        /\ v_left = v_right => v_result
        /\ v_result <=> ValuesEqual(v_right, v_left)
        /\ \A c \in NotNaN :
               (v_result /\ ValuesEqual(v_right, c)) => ValuesEqual(v_left, c)

\* C29, the part the code satisfies: reflexive and symmetric off NaN
C29_ReflexiveSymmetric ==
    ComparedOffNaN =>
        /\ v_left = v_right => v_result
        /\ v_result <=> ValuesEqual(v_right, v_left)

\* C29: the only chains on which transitivity fails lead from a Year over an
\* Integer to an UnsignedInteger of the same number, or back
C29_TransitiveApartFromYearUnsigned ==
    ComparedOffNaN =>
        \A c \in NotNaN :
            (v_result /\ ValuesEqual(v_right, c) /\ ~ValuesEqual(v_left, c)) =>
                /\ {v_left.tag, c.tag} = {"Year", "UnsignedInteger"}
                /\ v_right.tag = "Integer"
                /\ v_left.v = v_right.v /\ v_right.v = c.v
                /\ v_right.v >= 0

----------------------------------------------------------------------------
(* Claims about the schema differ *)

\* the statement list of the current call has been built
DiffBuilt == d_pc \in {"exec", "returned"}

OpsOf(stmts) == {stmts[i].op : i \in DOMAIN stmts}

CountOp(stmts, op) == Cardinality({i \in DOMAIN stmts : stmts[i].op = op})

\* statement i drops an index and statement i + 1 creates an index of the
\* same name on the same table
IsIndexReplacement(stmts, i) ==
    /\ stmts[i].op = "DROP INDEX"
    /\ i + 1 \in DOMAIN stmts
    /\ stmts[i + 1].op = "CREATE INDEX"
    /\ stmts[i + 1].index.name = stmts[i].name

\* C8, as stated: with destructive = false the statement list holds no DROP
\* TABLE, no DROP COLUMN, no DROP INDEX and no replacement of an index, on
\* both drivers.
C8_NoDropWithoutDestructive ==
    (DiffBuilt /\ ~d_destructive) =>
        \A i \in DOMAIN d_stmts :
            /\ d_stmts[i].op \notin {"DROP TABLE", "DROP COLUMN", "DROP INDEX"}
            /\ ~IsIndexReplacement(d_stmts, i)

\* C8, as the code has it: with destructive = false the statement list
\* holds no DROP TABLE and no DROP COLUMN, and the only DROP INDEX is the
\* first half of a replacement by the MySQL driver: the index name exists in
\* the desired and in the target table with definitions that are not
\* equivalent, and the DROP INDEX is immediately followed by the CREATE
\* INDEX of the desired definition. The PostgreSQL driver emits no DROP
\* INDEX.
C8_OnlyReplacementWithoutDestructive ==
    (DiffBuilt /\ ~d_destructive) =>
        \A i \in DOMAIN d_stmts :
            /\ d_stmts[i].op \notin {"DROP TABLE", "DROP COLUMN"}
            /\ d_stmts[i].op = "DROP INDEX" =>
                  /\ d_driver = "mysql"
                  /\ HasName(d_desired, d_stmts[i].table)
                  /\ HasName(d_target, d_stmts[i].table)
                  /\ LET want == GetByName(d_desired, d_stmts[i].table).indices
                         have == GetByName(d_target, d_stmts[i].table).indices
                     IN  /\ HasName(want, d_stmts[i].name)
                         /\ HasName(have, d_stmts[i].name)
                         /\ ~MyIndicesEqual(GetByName(have, d_stmts[i].name),
                                            GetByName(want, d_stmts[i].name))
                         /\ i + 1 \in DOMAIN d_stmts
                         /\ d_stmts[i + 1] =
                               MyBuildCreateIndex(d_stmts[i].table,
                                                  GetByName(want, d_stmts[i].name))

\* a non-destructive MySQL call against a target with a surplus table and a
\* surplus column that replaces an index
C8_Witness ==
    /\ d_pc = "returned"
    /\ ~d_destructive
    /\ d_driver = "mysql"
    /\ HasName(d_target, "legacy_audit")
    /\ HasName(d_target, "users")
    /\ HasName(GetByName(d_target, "users").columns, "note")
    /\ ~HasName(d_desired[1].columns, "note")
    /\ \E i \in DOMAIN d_stmts : IsIndexReplacement(d_stmts, i)

\* C9, as stated: once a call with dry_run = false and destructive = false
\* has succeeded, the next call with the same arguments that succeeds
\* returns an empty statement list, on both drivers.
C9_SecondRunEmpty ==
    (~d_dry_run /\ ~d_destructive) =>
        \A k \in DOMAIN d_returned :
            (k > 1 /\ d_returned[k - 1].ok /\ d_returned[k].ok)
                => d_returned[k].stmts = <<>>

\* a desired column whose default MySQL's field_migration_sql never renders
UnrenderedDefault(table_name, column_name) ==
    /\ HasName(d_desired, table_name)
    /\ HasName(GetByName(d_desired, table_name).columns, column_name)
    /\ LET c == GetByName(GetByName(d_desired, table_name).columns, column_name)
       IN  c.default # None /\ MySkipDefault(c.data_type)

\* a desired index without index type, which MySQL reports back as BTREE
UntypedIndex(table_name, index_name) ==
    /\ HasName(d_desired, table_name)
    /\ HasName(GetByName(d_desired, table_name).indices, index_name)
    /\ GetByName(GetByName(d_desired, table_name).indices, index_name).index_type = None

\* C9, where it fails: a second successful run that is not empty is a run of
\* the MySQL driver, and each of its statements re-applies a text column
\* that carries a default or replaces an index that carries no index type.
C9_SecondRunOffenders ==
    (~d_dry_run /\ ~d_destructive) =>
        \A k \in DOMAIN d_returned :
            (k > 1 /\ d_returned[k - 1].ok /\ d_returned[k].ok)
                => \A i \in DOMAIN d_returned[k].stmts :
                      LET st == d_returned[k].stmts[i]
                      IN  /\ d_driver = "mysql"
                          /\ \/ /\ st.op = "MODIFY COLUMN"
                                /\ UnrenderedDefault(st.table, st.def.name)
                             \/ /\ st.op = "DROP INDEX"
                                /\ UntypedIndex(st.table, st.name)
                             \/ /\ st.op = "CREATE INDEX"
                                /\ UntypedIndex(st.table, st.index.name)

\* --- C10

\* the desired or target table a statement works on
StmtTable(stmt) ==
    IF "table" \in DOMAIN stmt THEN stmt.table
    ELSE (CHOOSE t \in Range(d_target) : HasName(t.indices, stmt.name)).name

NotDropTable(stmt) == stmt.op # "DROP TABLE"
IsDropTable(stmt) == stmt.op = "DROP TABLE"

\* the statements of the list, other than DROP TABLE, that work on a table
SegmentOf(stmts, table_name) ==
    SelectSeq(stmts, LAMBDA st : NotDropTable(st) /\ StmtTable(st) = table_name)

TargetOnly == SelectSeq(d_target, LAMBDA t : ~HasName(d_desired, t.name))

\* two columns agree on name, type, length, nullability and default
SameColumn(a, b) ==
    /\ a.name = b.name
    /\ a.data_type = b.data_type
    /\ a.length = b.length
    /\ a.is_nullable = b.is_nullable
    /\ a.default = b.default

SameColumns(a, b) ==
    /\ Len(a) = Len(b)
    /\ \A i \in DOMAIN a : SameColumn(a[i], b[i])

SameIndices(a, b) ==
    /\ NamesOf(a) = NamesOf(b)
    /\ \A n \in NamesOf(a) :
          /\ GetByName(a, n).is_unique = GetByName(b, n).is_unique
          /\ GetByName(a, n).columns = GetByName(b, n).columns
          /\ IndexTypeKey(GetByName(a, n).index_type)
                = IndexTypeKey(GetByName(b, n).index_type)

WithoutColumn(columns, name) == SelectSeq(columns, LAMBDA c : c.name # name)

\* the target is the desired schema plus the table legacy_audit and minus
\* the column users.locale varchar(8)
SurplusTableMissingColumn ==
    /\ NamesOf(d_target) = NamesOf(d_desired) \cup {"legacy_audit"}
    /\ ~HasName(d_desired, "legacy_audit")
    /\ \A i \in DOMAIN d_desired :
          LET want == d_desired[i]
              have == GetByName(d_target, want.name)
          IN  /\ SameIndices(want.indices, have.indices)
              /\ IF want.name = "users"
                 THEN /\ HasName(want.columns, "locale")
                      /\ GetByName(want.columns, "locale") = ColLocale(8)
                      /\ SameColumns(WithoutColumn(want.columns, "locale"), have.columns)
                 ELSE SameColumns(want.columns, have.columns)
    /\ \A c \in Range(GetByName(d_desired, "users").columns) :
          ~(c.default # None /\ MySkipDefault(c.data_type))

C10_WitnessCreateAlterDrop ==
    /\ d_pc = "returned"
    /\ d_destructive
    /\ Len(d_desired) = 2
    /\ HasName(d_target, "users")
    /\ ~HasName(d_target, "orders")
    /\ HasName(d_target, "legacy_audit")
    /\ {"CREATE TABLE", "ADD COLUMN", "DROP TABLE"} \subseteq OpsOf(d_stmts)

----------------------------------------------------------------------------
(* Claims about the execution of the statements *)

LastReturned == d_returned[Len(d_returned)]

\* C24: with dry_run = false the statements are executed one by one in the
\* order of the list; when one fails no later one is executed, what the
\* earlier ones did stays in the target, and the call returns the error and
\* not the list; when none fails the call returns the list
C24_ExecuteInOrderStopAtFailure ==
    [][~d_dry_run =>
        \* execution starts at the first statement
        /\ (d_pc = "call" /\ d_pc' = "exec") => (d_next' = 1)
        \* the target changes only by the next statement of the list
        /\ (d_catalog' # d_catalog) =>
              /\ d_pc = "exec" /\ d_pc' = "exec"
              /\ d_next \in DOMAIN d_stmts
              /\ d_catalog' = Apply(d_driver, d_stmts[d_next], d_catalog)
        /\ (d_pc = "exec" /\ d_pc' = "exec") => (d_next' = d_next + 1 /\ d_stmts' = d_stmts)
        \* the call returns the list after the last statement, the error
        \* before; the target is left as the executed statements made it
        /\ (d_pc = "exec" /\ d_pc' = "returned") =>
              /\ d_catalog' = d_catalog
              /\ IF d_next = Len(d_stmts) + 1
                 THEN LastReturned' = Returned(TRUE, d_stmts)
                 ELSE ~LastReturned'.ok /\ LastReturned'.stmts = <<>>
        \* nothing follows a failed call
        /\ (d_pc = "returned" /\ ~LastReturned.ok) => UNCHANGED diffVars
    ]_vars

\* the second of at least two statements failed after the first had changed
\* the target
C24_Witness ==
    /\ ~d_dry_run
    /\ d_pc = "returned"
    /\ Len(d_returned) = 1
    /\ ~LastReturned.ok
    /\ d_next = 2
    /\ Len(d_stmts) >= 2
    /\ d_stmts[1].op = "CREATE TABLE"
    /\ ~HasName(d_target, d_stmts[1].table)
    /\ \E t \in d_catalog : t.name = d_stmts[1].table

----------------------------------------------------------------------------
(* Claims about the order of the statement list *)

\* the call has generated its list and has not yet changed the target
DiffGenerated ==
    \/ d_pc = "exec" /\ d_next = 1
    \/ d_pc = "returned" /\ d_dry_run

\* the lists diff_and_apply_schema can build from the same arguments on the
\* same target
PossibleStatementLists ==
    UNION {DiffStatements(d_driver, d_desired, target, d_destructive) :
           target \in FetchSchemas(d_driver, d_catalog)}

\* the positions of the CREATE INDEX statements of the table follow the
\* order of the desired indices
IndexStatementsInDesiredOrder(stmts, table) ==
    \A i, j \in DOMAIN stmts :
        (/\ i < j
         /\ stmts[i].op = "CREATE INDEX" /\ stmts[i].table = table.name
         /\ stmts[j].op = "CREATE INDEX" /\ stmts[j].table = table.name)
        => \E a, b \in DOMAIN table.indices :
              /\ a < b
              /\ table.indices[a].name = stmts[i].index.name
              /\ table.indices[b].name = stmts[j].index.name

\* C30: for the same desired schema, live target and flags any two runs of
\* diff_and_apply_schema return the same statements in the same order, and
\* the index statements of a table are in desired index order, on both
\* drivers
C30_StatementListDeterministic ==
    DiffGenerated =>
        /\ PossibleStatementLists = {d_stmts}
        /\ \A i \in DOMAIN d_desired :
              IndexStatementsInDesiredOrder(d_stmts, d_desired[i])

\* C30, what holds on both drivers: every possible list has the same
\* statements, each as often as in any other
C30_SameStatementsAnyOrder ==
    DiffGenerated =>
        \A other \in PossibleStatementLists :
            /\ Len(other) = Len(d_stmts)
            /\ \A s \in Range(d_stmts) :
                  Cardinality({i \in DOMAIN other : other[i] = s})
                      = Cardinality({i \in DOMAIN d_stmts : d_stmts[i] = s})

\* C30, the PostgreSQL driver given one order of the fetched tables: the
\* list is a function of the arguments
C30_PgDeterministicGivenTableOrder ==
    (DiffGenerated /\ d_driver = "postgres") =>
        DiffStatements(d_driver, d_desired, d_target, d_destructive) = {d_stmts}

----------------------------------------------------------------------------
(* Claims about insert_chunk and bind_universal *)

\* the ids the target table held when insert_chunk was called
TakenIds(table) == {c.val : c \in StoredIds(table)}

\* the rows a row-by-row insertion in chunk order lets in: a row is refused
\* when its id is in the table already
RECURSIVE LandedOf(_, _, _)
LandedOf(ids, chunk, i) ==
    IF i > Len(chunk) THEN <<>>
    ELSE IF chunk[i].id \in ids THEN LandedOf(ids, chunk, i + 1)
    ELSE <<i>> \o LandedOf(ids \cup {chunk[i].id}, chunk, i + 1)

RefusedOf(ids, chunk) ==
    LET landed == Range(LandedOf(ids, chunk, 1))
    IN  SelectSeq([i \in DOMAIN chunk |-> i], LAMBDA i : i \notin landed)

\* the multi-row INSERT was sent and failed
BatchFailed ==
    /\ ic_chunk # <<>>
    /\ ~ic_dry_run
    /\ \/ ic_fault
       \/ Len(RefusedOf(TakenIds(ic_table0), ic_chunk)) > 0

InsReturned == ic_pc = "done" /\ ~ic_dry_run

\* C11: with dry_run = false, insert_chunk returns an error exactly when the
\* multi-row INSERT failed and halt_on_error is set, the error is the one of
\* the multi-row INSERT, and with halt_on_error = false the call returns
\* success whichever rows were refused (both drivers).
C11_ErrorIffBatchFailedAndHalt ==
    InsReturned =>
        /\ (ic_result # InsOk) <=> (BatchFailed /\ ic_halt)
        /\ (ic_result # InsOk) => ic_result = InsErr(BatchError)
        /\ ~ic_halt => ic_result = InsOk

\* the MySQL driver has retried the rows, logged one and returns the error
\* of the batch
C11_Witness ==
    /\ InsReturned
    /\ ic_driver = "mysql"
    /\ ic_halt
    /\ Len(ic_log) = 1
    /\ Len(ic_landed) = 2
    /\ ic_result = InsErr(BatchError)

\* the same on the PostgreSQL driver with halt_on_error = false: rows were
\* refused and the call returns success
C11_WitnessContinue ==
    /\ InsReturned
    /\ ic_driver = "postgres"
    /\ ~ic_halt
    /\ Len(ic_log) = 2
    /\ ic_result = InsOk

\* C12: when the multi-row INSERT failed and halt_on_error is false, every
\* row of the chunk was retried on its own in chunk order; the rows whose
\* insert succeeded are in the target, in that order, and every refused row
\* left exactly one line naming the table in migration_errors.log; a chunk
\* with exactly one refused row leaves all rows but one in the target and one
\* line in the log.
C12_RowByRowRetry ==
    (InsReturned /\ BatchFailed /\ ~ic_halt) =>
        LET landed == LandedOf(TakenIds(ic_table0), ic_chunk, 1)
            refused == RefusedOf(TakenIds(ic_table0), ic_chunk)
            n0 == Len(ic_table0)
        IN  /\ ic_execs = 1 + Len(ic_chunk)
            /\ ic_landed = landed
            /\ Len(ic_table) = n0 + Len(landed)
            /\ \A j \in 1..n0 : ic_table[j] = ic_table0[j]
            /\ \A j \in DOMAIN landed :
                   ic_table[n0 + j].id = SqlParam(ic_chunk[landed[j]].id)
            /\ Len(ic_log) = Len(refused)
            /\ \A j \in DOMAIN refused :
                   /\ ic_log[j].table = InsTable
                   /\ ic_log[j].data = ic_chunk[refused[j]]
            /\ Len(refused) = 1 =>
                   /\ Len(ic_table) = n0 + Len(ic_chunk) - 1
                   /\ Len(ic_log) = 1

\* a full chunk whose second row alone is refused: the others landed, one line
C12_Witness ==
    /\ InsReturned
    /\ ~ic_halt
    /\ ~ic_fault
    /\ Len(ic_chunk) = MaxChunkRows
    /\ ic_landed = <<1>> \o [j \in 1..(MaxChunkRows - 2) |-> j + 2]
    /\ Len(ic_log) = 1
    /\ ic_log[1].table = InsTable
    /\ ic_result = InsOk

\* the part of C13 that is insert_chunk's: with dry_run = true no INSERT is
\* sent, no row is retried, nothing is logged and the table is as it was
C13_InsertChunkDryRun ==
    ic_dry_run => (ic_execs = 0 /\ ic_table = ic_table0 /\ ic_log = <<>> /\ ic_pc # "retry")

\* the chunk row and the stored row of the j-th insertion
LandedSource(j) == ic_chunk[ic_landed[j]]
LandedStored(j) == ic_table[Len(ic_table0) + j]

\* C17: a row value Null or ZeroDateTime is stored as SQL NULL by the
\* PostgreSQL driver always and by the MySQL driver unless zero_date_on_write
\* is set, when ZeroDateTime, and only ZeroDateTime, is stored as the literal
\* 0000-00-00 00:00:00; no other value is stored as NULL; a ZeroDateTime
\* written by the PostgreSQL driver reads back as Null, which values_equal
\* accepts against the source value.
C17_SentinelsBoundAsNull ==
    \A j \in DOMAIN ic_landed :
        LET src == LandedSource(j).dob
            cell == LandedStored(j).dob
            literal == ic_driver = "mysql" /\ ic_zero_date /\ src = ZeroDateTime
        IN  /\ src \in {Null, ZeroDateTime} =>
                   cell = (IF literal THEN SqlText(ZeroDateLiteral) ELSE SqlNull)
            /\ src \notin {Null, ZeroDateTime} => cell = SqlParam(src)
            /\ (ic_driver = "postgres" /\ src = ZeroDateTime) =>
                   /\ DecodeDatetime(ic_driver, cell) = Null
                   /\ ValuesEqual(src, DecodeDatetime(ic_driver, cell))

\* a ZeroDateTime landed in a PostgreSQL target
C17_Witness ==
    /\ ic_pc = "done"
    /\ ic_driver = "postgres"
    /\ \E j \in DOMAIN ic_landed :
           /\ LandedSource(j).dob = ZeroDateTime
           /\ LandedStored(j).dob = SqlNull

\* a ZeroDateTime landed as the literal, next to a Null, in a MySQL target
C17_WitnessZeroDate ==
    /\ ic_pc = "done"
    /\ ic_driver = "mysql"
    /\ ic_zero_date
    /\ \E j, k \in DOMAIN ic_landed :
           /\ LandedSource(j).dob = ZeroDateTime
           /\ LandedStored(j).dob = SqlText(ZeroDateLiteral)
           /\ LandedSource(k).dob = Null
           /\ LandedStored(k).dob = SqlNull

-----------------------------------------------------------------------------
(* Claims about the two insert_chunk implementations *)

\* what a call of insert_chunk leaves behind: the returned result, the rows of
\* the chunk written to the target and the lines appended to the error log
InsOutcome(result, landed, log) == [result |-> result, landed |-> landed, log |-> log]

\* the row-by-row retry over the whole chunk
RetryOutcome(result, table0, chunk) ==
    LET refused == RefusedOf(TakenIds(table0), chunk)
    IN  InsOutcome(result, LandedOf(TakenIds(table0), chunk, 1),
                   [j \in DOMAIN refused |->
                       LogLine(InsTable, chunk[refused[j]], RowError(refused[j]))])

\* MySqlDriver::insert_chunk: after a failed multi-row INSERT every row is
\* retried, and only then `if halt_on_error { return Err(e.into()); }`
MyInsertChunkOutcome(chunk, dry_run, halt_on_error, batch_failed, table0) ==
    IF chunk = <<>> \/ dry_run THEN InsOutcome(InsOk, <<>>, <<>>)
    ELSE IF ~batch_failed THEN InsOutcome(InsOk, [j \in DOMAIN chunk |-> j], <<>>)
    ELSE RetryOutcome(IF halt_on_error THEN InsErr(BatchError) ELSE InsOk, table0, chunk)

\* PostgresDriver::insert_chunk: after a failed multi-row INSERT
\* `if halt_on_error { return Err(Box::new(e)); }` comes first, then the retry
PgInsertChunkOutcome(chunk, dry_run, halt_on_error, batch_failed, table0) ==
    IF chunk = <<>> \/ dry_run THEN InsOutcome(InsOk, <<>>, <<>>)
    ELSE IF ~batch_failed THEN InsOutcome(InsOk, [j \in DOMAIN chunk |-> j], <<>>)
    ELSE IF halt_on_error THEN InsOutcome(InsErr(BatchError), <<>>, <<>>)
    ELSE RetryOutcome(InsOk, table0, chunk)

InsertChunkOutcome(driver) ==
    IF driver = "mysql"
    THEN MyInsertChunkOutcome(ic_chunk, ic_dry_run, ic_halt, BatchFailed, ic_table0)
    ELSE PgInsertChunkOutcome(ic_chunk, ic_dry_run, ic_halt, BatchFailed, ic_table0)

OtherDriver(driver) == IF driver = "mysql" THEN "postgres" ELSE "mysql"

\* C27: for the same chunk, the same failure pattern and the same
\* halt_on_error value, insert_chunk of either driver has the outcome
\* insert_chunk of the other driver has: the same result, the same rows
\* written and the same lines in the error log.
C27_SameOutcomeOnBothDrivers ==
    ic_pc = "done" =>
        InsOutcome(ic_result, ic_landed, ic_log) = InsertChunkOutcome(OtherDriver(ic_driver))

\* the call of either driver ends with the outcome computed for that driver
C27_OutcomeOfDriver ==
    ic_pc = "done" =>
        InsOutcome(ic_result, ic_landed, ic_log) = InsertChunkOutcome(ic_driver)

\* the two drivers agree whenever halt_on_error is false or the multi-row
\* INSERT did not fail
C27_SameOutcomeUnlessHaltOnFailure ==
    (ic_pc = "done" /\ ~(ic_halt /\ BatchFailed)) =>
        InsOutcome(ic_result, ic_landed, ic_log) = InsertChunkOutcome(OtherDriver(ic_driver))

\* with halt_on_error set and a failed multi-row INSERT both return the error
\* of the batch, and the PostgreSQL driver has written and logged nothing
C27_HaltOnFailure ==
    (ic_pc = "done" /\ ic_halt /\ BatchFailed) =>
        /\ ic_result = InsErr(BatchError)
        /\ ic_driver = "postgres" => (ic_landed = <<>> /\ ic_log = <<>>)
        /\ ic_driver = "mysql" =>
               /\ ic_landed = LandedOf(TakenIds(ic_table0), ic_chunk, 1)
               /\ Len(ic_log) = Len(RefusedOf(TakenIds(ic_table0), ic_chunk))

----------------------------------------------------------------------------
(* Claims about the command orchestrator *)

IoOn(db) == {i \in DOMAIN c_io : c_io[i].db = db}
IoWrites == {i \in DOMAIN c_io : c_io[i].op = "write"}
Unsupported(url) == url \notin {"mysql://", "postgres://", "postgresql://", NoUrl}

C13_DiffDryRun == [][d_dry_run => d_catalog' = d_catalog]_vars

\* C13, replicate_data: with dry_run = true no table is verified
C13_ReplicateDryRunNoVerify ==
    r_dry_run => (r_pc # "verify" /\ \A i \in DOMAIN r_log : r_log[i][1] # "verify")

\* C14: a Replicate into a target that is not empty executes nothing that
\* changes the target and never connects to or reads the source; once the
\* target was asked, the command fails with the precondition error; the
\* target is as it was.
C14_NonEmptyTargetRefused ==
    (c_in.cmd = "Replicate" /\ c_target0.tables # {}) =>
        /\ IoWrites = {}
        /\ IoOn("source") = {}
        /\ c_target_db = c_target0
        /\ c_pc \notin {"fetch_schema", "sort", "schema", "data"}
        /\ (c_pc = "done" /\ Len(c_io) = 2) => c_result = CmdErr("target not empty")
        /\ (c_pc = "done") => c_result # CmdOk

C14_Witness ==
    /\ c_in.cmd = "Replicate"
    /\ DriverOfUrl(c_in.source) # "unsupported"
    /\ c_target0.tables # {}
    /\ c_pc = "done"
    /\ c_io = <<IoEvent("target", "connect"), IoEvent("target", "read")>>
    /\ c_result = CmdErr("target not empty")

\* C15, as stated: a Replicate from a PostgreSQL URL to a MySQL URL ends in
\* an error and attempts no connection to either database.
C15_PostgresToMySqlRejected ==
    (/\ c_in.cmd = "Replicate"
     /\ c_in.source \in {"postgres://", "postgresql://"}
     /\ c_in.target = "mysql://") =>
        /\ c_io = <<>>
        /\ c_pc = "done" => c_result # CmdOk

\* C16, as stated: a command with a source or target URL of an unsupported
\* scheme does no I/O on either database and ends in the error of
\* create_driver.
C16_UnsupportedUrlBeforeAnyIo ==
    (Unsupported(c_in.source) \/ Unsupported(c_in.target)) =>
        /\ c_io = <<>>
        /\ c_pc = "done" => c_result = CmdErr("unsupported protocol")

\* C16, the part the code satisfies: no connection is opened to a URL of an
\* unsupported scheme, nothing is written to either database, and the command
\* does not succeed.
C16_NoIoOnUnsupportedUrl ==
    /\ Unsupported(c_in.source) => IoOn("source") = {}
    /\ Unsupported(c_in.target) => IoOn("target") = {}
    /\ (Unsupported(c_in.source) \/ Unsupported(c_in.target)) =>
           (IoWrites = {} /\ c_result # CmdOk /\ c_target_db = c_target0)

----------------------------------------------------------------------------
(* Claims about row decoding *)

\* the columns of a result row whose type has no decoder
Undecodable(driver, row) ==
    {i \in DOMAIN row : row[i].type_name \notin DecoderTypes(driver)}
UndecodableValues(driver, row) ==
    {i \in Undecodable(driver, row) : row[i].raw # RawNull}

\* the result rows behind the rows that reached the buffer or insert_chunk
RowsHandedOn == {rw_stream[r.source] : r \in Range(rw_chunk) \cup Range(rw_inserted)}

\* C18, as stated: a result row with a column whose type has no decoder maps
\* to the UnsupportedType error naming the column and the type, whatever the
\* value of the column is, SQL NULL included; the stream yields the error
\* and no such row reaches insert_chunk.
C18_UndecodableColumnFails ==
    /\ rw_pc = "item" =>
           LET row == rw_stream[rw_i]
               bad == Undecodable(rw_driver, row)
           IN  bad # {} =>
                   \E i \in bad : rw_item = UnsupportedType(row[i].name, row[i].type_name)
    /\ \A row \in RowsHandedOn : Undecodable(rw_driver, row) = {}

\* C18, the part the code satisfies: a result row with a value other than
\* NULL in a column without decoder maps to the UnsupportedType error of the
\* first such column, replicate_data returns that error, and no such row
\* reaches the buffer or insert_chunk; a NULL in such a column is decoded to
\* Null and the row goes on.
C18_UndecodableValueFails ==
    /\ rw_pc \in {"item", "done"} /\ rw_i > 0 =>
           LET row == rw_stream[rw_i]
               bad == UndecodableValues(rw_driver, row)
           IN  IF bad = {}
               THEN rw_pc = "item" => rw_item.ok
               ELSE /\ \E i \in bad :
                           rw_item = UnsupportedType(row[i].name, row[i].type_name)
                    /\ rw_pc = "done" => rw_result = rw_item
    /\ \A row \in RowsHandedOn : UndecodableValues(rw_driver, row) = {}

----------------------------------------------------------------------------
(* Claims about alter_table_migration_sql *)

AltDone == al_pc = "done"

AltSourceIndex == GetByName(al_source.indices, AltIndex)
AltTargetIndex == GetByName(al_target.indices, AltIndex)

\* the index exists under the same name in the desired and the actual table
BothHaveIndex ==
    /\ HasName(al_source.indices, AltIndex)
    /\ HasName(al_target.indices, AltIndex)

NamesIndex(stmt, name) ==
    \/ stmt.op = "CREATE INDEX" /\ stmt.index.name = name
    \/ stmt.op = "DROP INDEX" /\ stmt.name = name

IndexStatements == {i \in DOMAIN al_stmts : NamesIndex(al_stmts[i], AltIndex)}

\* DROP INDEX of the name, and right after it CREATE INDEX of the desired
\* definition
IndexReplaced ==
    \E i \in DOMAIN al_stmts :
        /\ i + 1 \in DOMAIN al_stmts
        /\ al_stmts[i].op = "DROP INDEX"
        /\ al_stmts[i].name = AltIndex
        /\ al_stmts[i + 1].op = "CREATE INDEX"
        /\ al_stmts[i + 1].index.name = AltIndex
        /\ al_stmts[i + 1].index.columns = AltSourceIndex.columns
        /\ IndexStatements = {i, i + 1}

\* C19: an index that exists under the same name on both sides gets no
\* statement when the two definitions are equivalent (uniqueness, index type
\* ignoring case, columns in order, prefix lengths with an absent prefix list
\* read as no prefix); otherwise it is replaced, DROP INDEX followed by
\* CREATE INDEX of the desired definition, whatever destructive is, in both
\* drivers
C19_SameNameIndex ==
    AltDone /\ BothHaveIndex =>
        IF MyIndicesEqual(AltTargetIndex, AltSourceIndex)
        THEN IndexStatements = {}
        ELSE IndexReplaced

\* C19, the MySQL driver: the rule holds
C19_MySqlSameNameIndex ==
    al_driver = "mysql" => C19_SameNameIndex

\* C19, the PostgreSQL driver: an index that exists under the same name is
\* left as it is, whatever its definition
C19_PostgresKeepsIndex ==
    al_driver = "postgres" /\ AltDone /\ BothHaveIndex => IndexStatements = {}

\* a same-name index of another definition was replaced while destructive
\* is false
C19_Replaced ==
    /\ AltDone
    /\ BothHaveIndex
    /\ ~al_destructive
    /\ ~MyIndicesEqual(AltTargetIndex, AltSourceIndex)
    /\ IndexReplaced

AltSourceColumn == GetByName(al_source.columns, AltColumn)
AltTargetColumn == GetByName(al_target.columns, AltColumn)

FloatingPointTypes == {"float", "double"}

\* the defaults differ, those of a floating-point column as parsed numbers
DefaultsDiffer(src, dst) ==
    IF src.data_type \in FloatingPointTypes
    THEN ParseF64(src.default) # ParseF64(dst.default)
    ELSE src.default # dst.default

\* the six attributes a column modification is decided on
ColumnsDiffer(src, dst) ==
    \/ src.data_type # dst.data_type
    \/ src.length # dst.length
    \/ src.is_nullable # dst.is_nullable
    \/ DefaultsDiffer(src, dst)
    \/ src.auto_increment # dst.auto_increment
    \/ src.on_update # dst.on_update

ModifiesColumn(stmt, name) ==
    \/ stmt.op = "MODIFY COLUMN" /\ stmt.def.name = name
    \/ stmt.op = "ALTER COLUMN" /\ stmt.column = name

ColumnStatements == {i \in DOMAIN al_stmts : ModifiesColumn(al_stmts[i], AltColumn)}

\* the full column definition as the driver writes it
FieldMigrationSql(driver, field) ==
    IF driver = "mysql" THEN MyFieldMigrationSql(field) ELSE PgFieldMigrationSql(field)

\* C20: a column on both sides gets a MODIFY COLUMN / ALTER COLUMN statement
\* exactly when the two differ in data type, length, nullability, default
\* (floating-point defaults as parsed numbers), auto-increment or on-update,
\* and the statement carries the full definition of the desired column
C20_ColumnModified ==
    AltDone =>
        /\ (ColumnStatements # {}) <=> ColumnsDiffer(AltSourceColumn, AltTargetColumn)
        /\ \A i \in ColumnStatements :
              /\ "def" \in DOMAIN al_stmts[i]
              /\ al_stmts[i].def = FieldMigrationSql(al_driver, AltSourceColumn)

\* C20, the MySQL driver: the statement is emitted exactly when data type,
\* length or nullability differ, or the default does (parsed as a number
\* for the type float only), and it is MODIFY COLUMN with the full
\* definition of the desired column
C20_MySqlModifyColumn ==
    al_driver = "mysql" /\ AltDone =>
        /\ (ColumnStatements # {}) <=>
              \/ AltSourceColumn.data_type # AltTargetColumn.data_type
              \/ AltSourceColumn.length # AltTargetColumn.length
              \/ AltSourceColumn.is_nullable # AltTargetColumn.is_nullable
              \/ IF AltSourceColumn.data_type = "float"
                 THEN ParseF64(AltSourceColumn.default) # ParseF64(AltTargetColumn.default)
                 ELSE AltSourceColumn.default # AltTargetColumn.default
        /\ \A i \in ColumnStatements :
              al_stmts[i] = StmtModifyColumn(AltTable, MyFieldMigrationSql(AltSourceColumn))

\* C20, the PostgreSQL driver: the statement is emitted exactly when data
\* type or nullability differ, and it names the type and the nullability only
C20_PgAlterColumn ==
    al_driver = "postgres" /\ AltDone =>
        /\ (ColumnStatements # {}) <=>
              \/ AltSourceColumn.data_type # AltTargetColumn.data_type
              \/ AltSourceColumn.is_nullable # AltTargetColumn.is_nullable
        /\ \A i \in ColumnStatements :
              al_stmts[i] = StmtAlterColumn(AltTable, AltColumn, AltSourceColumn.data_type,
                                            AltSourceColumn.is_nullable)

\* two float defaults that are the same number made no statement
C20_FloatDefaultsEqual ==
    /\ AltDone
    /\ al_driver = "mysql"
    /\ AltSourceColumn.data_type = "float"
    /\ AltSourceColumn.default # AltTargetColumn.default
    /\ AltSourceColumn.default # None
    /\ AltTargetColumn.default # None
    /\ ColumnStatements = {}

----------------------------------------------------------------------------
(* Claims about single functions of the drivers *)

DrvDone(fn) == dv_pc = "done" /\ dv_call.fn = fn

NamesIn(columns) == [i \in DOMAIN columns |-> columns[i].name]

\* the names of the columns whose is_primary_key is set, in IR order
PrimaryKeyOf(table) == NamesIn(SelectSeq(table.columns, LAMBDA c : c.is_primary_key))

\* the list starts with CREATE TABLE of the columns in IR order, and goes
\* on with one CREATE INDEX per entry of the table's indices, in their order
CreatesTableThenIndices(table, stmts) ==
    /\ Len(stmts) = 1 + Len(table.indices)
    /\ stmts[1].op = "CREATE TABLE"
    /\ stmts[1].table = table.name
    /\ NamesIn(stmts[1].columns) = NamesIn(table.columns)
    /\ \A i \in DOMAIN table.indices :
          /\ stmts[1 + i].op = "CREATE INDEX"
          /\ stmts[1 + i].table = table.name
          /\ stmts[1 + i].index.name = table.indices[i].name
          /\ stmts[1 + i].index.columns = table.indices[i].columns

\* C21: for a desired-only table both drivers emit CREATE TABLE with the
\* columns in IR order and a PRIMARY KEY clause of exactly the columns whose
\* is_primary_key is set (none when no column is), followed by one CREATE
\* INDEX per entry of the table's indices
C21_CreateTableWithPrimaryKey ==
    DrvDone("create_table_migration_sql") =>
        /\ CreatesTableThenIndices(dv_call.args.table, dv_result)
        /\ dv_result[1].primary_key = PrimaryKeyOf(dv_call.args.table)

\* C21, the MySQL driver: the claim holds
C21_MySqlCreateTable ==
    dv_call # <<>> /\ dv_call.driver = "mysql" => C21_CreateTableWithPrimaryKey

\* C21, the PostgreSQL driver: the statements are as claimed, but CREATE
\* TABLE never has a PRIMARY KEY clause
C21_PgCreateTableWithoutKey ==
    DrvDone("create_table_migration_sql") /\ dv_call.driver = "postgres" =>
        /\ CreatesTableThenIndices(dv_call.args.table, dv_result)
        /\ dv_result[1].primary_key = <<>>

\* a table with a two-column key and two indices was created by MySQL
C21_MySqlCompositeKey ==
    /\ DrvDone("create_table_migration_sql")
    /\ dv_call.driver = "mysql"
    /\ Len(dv_result[1].primary_key) = 2
    /\ Len(dv_result) = 3

FetchedRows == dv_call.args.rows

\* the row belongs to the primary key of the table
IsPrimaryRow(driver, row) ==
    IF driver = "mysql" THEN row.Key_name = "PRIMARY" ELSE row.is_primary

IndexNameOfRow(driver, row) ==
    IF driver = "mysql" THEN row.Key_name ELSE row.index_name

\* the index is the one the catalog keeps for the primary key
IsPrimaryKeyIndex(driver, rows, index) ==
    \E i \in DOMAIN rows :
        /\ IndexNameOfRow(driver, rows[i]) = index.name
        /\ IsPrimaryRow(driver, rows[i])

\* C22: on both drivers and for every catalog content, no entry of the
\* indices list produced by introspection is the primary-key index of the
\* table
C22_NoPrimaryKeyIndex ==
    DrvDone("fetch_indices") =>
        \A i \in DOMAIN dv_result :
            ~IsPrimaryKeyIndex(dv_call.driver, FetchedRows, dv_result[i])

\* C22, the MySQL driver: the rows of PRIMARY are skipped
C22_MySqlSkipsPrimary ==
    DrvDone("fetch_indices") /\ dv_call.driver = "mysql" =>
        \A i \in DOMAIN dv_result :
            ~IsPrimaryKeyIndex(dv_call.driver, FetchedRows, dv_result[i])

\* C22, the PostgreSQL driver: every index of the catalog is in the list,
\* the one of the primary key included
C22_PgListsEveryIndex ==
    DrvDone("fetch_indices") /\ dv_call.driver = "postgres" =>
        {dv_result[i].name : i \in DOMAIN dv_result}
            = {FetchedRows[i].index_name : i \in DOMAIN FetchedRows}

\* the catalog rows held a primary key and another index, and MySQL
\* returned the other index only
C22_MySqlPrimarySkipped ==
    /\ DrvDone("fetch_indices")
    /\ dv_call.driver = "mysql"
    /\ \E i \in DOMAIN FetchedRows : FetchedRows[i].Key_name = "PRIMARY"
    /\ Len(dv_result) = 1

\* C26: after each row of SHOW INDEX is folded in, whatever the order of
\* Seq_in_index and the mix of null and non-null Sub_part, column_prefixes of
\* every index of the map is absent or as long as columns; so it is in the
\* returned list
C26_PrefixesMatchColumns ==
    (dv_call # <<>> /\ dv_call.fn = "fetch_indices" /\ dv_call.driver = "mysql") =>
        /\ \A k \in DOMAIN dv_map :
              \/ dv_map[k].column_prefixes = None
              \/ Len(dv_map[k].column_prefixes.v) = Len(dv_map[k].columns)
        /\ \A k \in DOMAIN dv_result :
              \/ dv_result[k].column_prefixes = None
              \/ Len(dv_result[k].column_prefixes.v) = Len(dv_result[k].columns)

\* a row with a prefix was folded in first, then a row without one at the
\* next position: the prefix list grew with the column list
C26_Witness ==
    /\ dv_pc = "call"
    /\ dv_call.fn = "fetch_indices"
    /\ dv_call.driver = "mysql"
    /\ dv_i = 2
    /\ FetchedRows[1].Key_name = "idx_a" /\ FetchedRows[1].Seq_in_index = 1
    /\ FetchedRows[1].Sub_part # None
    /\ FetchedRows[2].Key_name = "idx_a" /\ FetchedRows[2].Seq_in_index = 2
    /\ FetchedRows[2].Sub_part = None
    /\ Len(dv_map) = 1
    /\ dv_map[1].column_prefixes = Some(<<Some(4), None>>)

IntegerFamily == {"tinyint", "smallint", "mediumint", "int", "bigint"}

\* the case-insensitive two-step lookup: the full spelling, then the family,
\* else the family itself
LookupIgnoringCase(column_type, config) ==
    UnwrapOr(TypeLookup(config.on_read, ToLowercase(column_type),
                        ToLowercase(FirstPiece(column_type))),
             ToLowercase(FirstPiece(column_type)))

\* the unsigned rule applies to the column
RuleFires(column_type, config) ==
    /\ config.unsigned_int_to_bigint
    /\ ContainsUnsigned(ToLowercase(column_type))
    /\ ToLowercase(FirstPiece(column_type)) \in IntegerFamily

\* the data type the claim gives a column type under a configuration
MappedType(column_type, config) ==
    IF RuleFires(column_type, config) THEN "bigint"
    ELSE LookupIgnoringCase(column_type, config)

\* C23: the on_read mapping looks up, ignoring the case of the input, the
\* full column type, then the bare family, else passes the type through;
\* then the unsigned rule turns an unsigned integer column into bigint and
\* clears its unsigned flag, and changes nothing otherwise; map_mysql_type
\* and fetch_columns give the same data type
C23_OnReadMapping ==
    /\ DrvDone("map_mysql_type") =>
          dv_result = MappedType(dv_call.args.mysql_column_type, dv_call.args.config)
    /\ DrvDone("fetch_columns") =>
          /\ dv_result.data_type = MappedType(dv_call.args.Type, dv_call.args.config)
          /\ dv_result.is_unsigned =
                (/\ ContainsUnsigned(ToLowercase(dv_call.args.Type))
                 /\ ~RuleFires(dv_call.args.Type, dv_call.args.config))
          /\ dv_result.data_type =
                MapMysqlType(dv_call.args.Type, FirstPiece(dv_call.args.Type),
                             ContainsUnsigned(ToLowercase(dv_call.args.Type)),
                             dv_call.args.config)

\* C23, map_mysql_type alone: the claim holds
C23_MapMysqlType ==
    DrvDone("map_mysql_type") =>
        dv_result = MappedType(dv_call.args.mysql_column_type, dv_call.args.config)

\* C23, fetch_columns: the unsigned rule is as claimed; the full column type
\* is looked up as the server wrote it, not in lower case
C23_FetchColumnsLooksUpVerbatim ==
    DrvDone("fetch_columns") =>
        LET t == dv_call.args.Type
            config == dv_call.args.config
            fires == RuleFires(t, config)
        IN  /\ dv_result.is_unsigned = (ContainsUnsigned(ToLowercase(t)) /\ ~fires)
            /\ dv_result.data_type =
                  IF fires THEN "bigint"
                  ELSE UnwrapOr(TypeLookup(config.on_read, t, ToLowercase(FirstPiece(t))),
                                ToLowercase(FirstPiece(t)))

\* map_mysql_type overrode a mapping of the full spelling by bigint
C23_RuleOverridesMapping ==
    /\ DrvDone("map_mysql_type")
    /\ dv_call.args.mysql_column_type = "int(10) unsigned"
    /\ dv_call.args.config.on_read # None
    /\ "int(10) unsigned" \in DOMAIN dv_call.args.config.on_read.v
    /\ dv_result = "bigint"

\* the rendered definition ends its nullability with DEFAULT NULL
RendersDefaultNull(def) == def.default = Some("NULL")

\* C25: MySQL field_migration_sql renders a nullable column without default,
\* of any data type, text included, as NULL DEFAULT NULL, and a non-nullable
\* column as NOT NULL without DEFAULT NULL
C25_NullableDefaultNull ==
    DrvDone("field_migration_sql") =>
        LET field == dv_call.args.field
        IN  /\ (field.is_nullable /\ field.default = None) =>
                  (dv_result.null = "NULL" /\ RendersDefaultNull(dv_result))
            /\ ~field.is_nullable =>
                  (dv_result.null = "NOT NULL" /\ ~RendersDefaultNull(dv_result))

\* C25, what holds: DEFAULT NULL is written for a nullable column without
\* default unless the type is a text, a blob or json; NOT NULL columns
\* never get it
C25_DefaultNullUnlessTextBlobJson ==
    DrvDone("field_migration_sql") =>
        LET field == dv_call.args.field
        IN  /\ dv_result.null = (IF field.is_nullable THEN "NULL" ELSE "NOT NULL")
            /\ RendersDefaultNull(dv_result) <=>
                  (/\ field.is_nullable
                   /\ field.default = None
                   /\ ~MySkipDefault(field.data_type))

\* a nullable varchar column without default was rendered with DEFAULT NULL
C25_VarcharDefaultNull ==
    /\ DrvDone("field_migration_sql")
    /\ dv_call.args.field.data_type = "varchar"
    /\ dv_call.args.field.is_nullable
    /\ RendersDefaultNull(dv_result)

----------------------------------------------------------------------------
(* Specifications *)

\* the Migrate command runs; no replication is in progress
InitSort == SortInit /\ ReplIdle /\ ValIdle /\ VerIdle /\ DiffIdle /\ ExtIdle

SpecSort == InitSort /\ [][SortNext]_vars

\* replicate_data runs on its own
InitRepl == ReplInit /\ SortIdle /\ ValIdle /\ VerIdle /\ DiffIdle /\ ExtIdle

SpecRepl == InitRepl /\ [][ReplNext]_vars

\* values_equal is applied to every pair of values
InitValues == ValInit /\ SortIdle /\ ReplIdle /\ VerIdle /\ DiffIdle /\ ExtIdle

SpecValues == InitValues /\ [][ValNext]_vars

\* verify_table_data runs over a pair of streams
InitVerify == VerInit /\ SortIdle /\ ReplIdle /\ ValIdle /\ DiffIdle /\ ExtIdle

SpecVerify == InitVerify /\ [][VerNext]_vars

\* diff_and_apply_schema is called, and called again, on a live target
InitDiff == DiffInit /\ SortIdle /\ ReplIdle /\ ValIdle /\ VerIdle /\ ExtIdle

SpecDiff == InitDiff /\ [][DiffNext]_vars

\* insert_chunk is called once on a target table
FirstIdle == SortIdle /\ ReplIdle /\ ValIdle /\ VerIdle /\ DiffIdle

InitInsert == InsInit /\ FirstIdle /\ CmdIdle /\ RowIdle /\ AltIdle /\ DrvIdle

SpecInsert == InitInsert /\ [][InsNext]_vars

\* one command runs
InitCommand == CmdInit /\ FirstIdle /\ InsIdle /\ RowIdle /\ AltIdle /\ DrvIdle

SpecCommand == InitCommand /\ [][CmdNext]_vars

\* the rows of one table are streamed, decoded and handed on
InitRow == RowInit /\ FirstIdle /\ InsIdle /\ CmdIdle /\ AltIdle /\ DrvIdle

SpecRow == InitRow /\ [][RowNext]_vars

\* alter_table_migration_sql of either driver on a pair of tables
InitAlter == AltInit /\ FirstIdle /\ InsIdle /\ CmdIdle /\ RowIdle /\ DrvIdle

SpecAlter == InitAlter /\ [][AltNext]_vars

\* one function of a driver is called once
InitDriver == DrvInit /\ FirstIdle /\ InsIdle /\ CmdIdle /\ RowIdle /\ AltIdle

SpecDriver == InitDriver /\ [][DrvNext]_vars

====
